---- MODULE Spec2Model ----
(***************************************************************************)
(* Eventify: an in-process publish/subscribe router.                       *)
(*   - Matcher (NewMatcher / Match): pattern classification and matching   *)
(*   - Eventify.Register / Unregister: the listener registry (a sync.Map   *)
(*     guarded by a mutex on the writers' side)                            *)
(*   - Eventify.Emit (_Emit, _MatchedListeners, _Trigger): collection of   *)
(*     the matching listeners and their synchronous / asynchronous         *)
(*     delivery, with the event's optional ErrorHandler                    *)
(* Strings are sequences of one-character strings.                         *)
(***************************************************************************)
EXTENDS Integers, Sequences, FiniteSets, TLC

\* ------------------------------------------------------------------ bounds
NumThreads     == 3   \* concurrent callers of the engine (SpecConcurrent)
MaxRegs        == 2   \* Register calls in one run of Spec
MaxEmits       == 1   \* Emit calls in one run of Spec
RegistryRegs   == 2   \* Register calls in one run of SpecRegistry
RegistryUnregs == 1   \* Unregister calls in one run of SpecRegistry
MaxGiven       == 2   \* listeners handed to one Unregister call
ConcRegs       == 2   \* Register calls in one run of SpecConcurrent
ConcEmits      == 1   \* Emit calls in one run of SpecConcurrent
ChurnRegs      == 2   \* Register calls in one run of SpecChurn
ChurnUnregs    == 1   \* Unregister calls in one run of SpecChurn
ChurnEmits     == 1   \* Emit calls in one run of SpecChurn
FairRegs       == 2   \* Register calls in one run of SpecFair
FairEmits      == 1   \* Emit calls in one run of SpecFair
ReRegs         == 2   \* Register calls in one run of SpecReentrant
ReUnregs       == 1   \* Unregister calls in one run of SpecReentrant
ReEmits        == 2   \* Emit calls in one run of SpecReentrant
MaxDepth       == 1   \* Emits nested inside a handler of an Emit
MaxLen         == 3   \* length of the patterns and names of SpecMatcher
ByRegs         == 2   \* Register calls in one run of SpecEmitBy
ByEmits        == 1   \* EmitBy calls in one run of SpecEmitBy
NilRegs        == 2   \* Register calls in one run of SpecNil
NilUnregs      == 1   \* Unregister calls in one run of SpecNil
NilEmits       == 1   \* Emit calls in one run of SpecNil
MaxOpts        == 2   \* options handed to NewEventify in SpecConstruct
NewRegs        == 2   \* Register calls in one run of SpecConstruct
NewUnregs      == 1   \* Unregister calls in one run of SpecConstruct
NewEmits       == 1   \* Emit calls in one run of SpecConstruct

Threads == 1 .. NumThreads

\* ----------------------------------------------------------------- strings
Star == "*"

\* The event-type strings callers register under, and the event names they emit.
Patterns == { <<"u", Star>>, <<Star, "p">>, <<"u", "x">>, <<>> }
Names    == { <<"u", "x">>, <<"x", "p">>, <<"u", "p">> }

\* ----------------------------------------------------------------- matcher
matchExact    == 0
matchPrefix   == 1
matchSuffix   == 2
matchContains == 3
matchWildcard == 4

\* NewMatcher: the switch of the constructor, first matching case wins.  The
\* third case indexes s[0] without a length check: on the empty string it is
\* an index-out-of-range panic (panics = TRUE).
NewMatcher(s) ==
  IF s = <<Star>>
    THEN [matchType |-> matchWildcard, pattern |-> <<>>, panics |-> FALSE]
  ELSE IF Len(s) > 1 /\ s[1] = Star /\ s[Len(s)] = Star
    THEN [matchType |-> matchContains, pattern |-> SubSeq(s, 2, Len(s) - 1),
          panics |-> FALSE]
  ELSE IF Len(s) = 0
    THEN [matchType |-> matchExact, pattern |-> <<>>, panics |-> TRUE]
  ELSE IF s[1] = Star
    THEN [matchType |-> matchSuffix, pattern |-> SubSeq(s, 2, Len(s)),
          panics |-> FALSE]
  ELSE IF Len(s) > 0 /\ s[Len(s)] = Star
    THEN [matchType |-> matchPrefix, pattern |-> SubSeq(s, 1, Len(s) - 1),
          panics |-> FALSE]
  ELSE [matchType |-> matchExact, pattern |-> s, panics |-> FALSE]

\* strings.Contains(target, sub)
\* Mutant: the literal is looked for at the start of the name only.
Contains_AtStart(target, sub) ==
  Len(sub) <= Len(target) /\ SubSeq(target, 1, Len(sub)) = sub

Contains(target, sub) ==
  \E i \in 1 .. (Len(target) - Len(sub) + 1) :
     SubSeq(target, i, i + Len(sub) - 1) = sub

\* The slice expression target[lo:hi] (0-based, hi exclusive): whether its
\* indices are in range (outside it is a run-time panic), and its value.
InRange(target, lo, hi) == 0 <= lo /\ lo <= hi /\ hi <= Len(target)
Slice(target, lo, hi)   == SubSeq(target, lo + 1, hi)

\* Mutant: `"*"` matches every name but the empty one.
WildcardMatch_NonEmpty(target) == target # <<>>

\* lines 52-53: case matchWildcard: return true
WildcardMatch(target) == TRUE

\* Mutant: the prefix is sliced off without the length test.
PrefixGuard_Dropped(pattern, target) == TRUE

\* line 55, left of &&: len(target) >= len(m.pattern)
PrefixGuard(pattern, target) == Len(target) >= Len(pattern)

\* line 57, left of &&: len(target) >= len(m.pattern)
SuffixGuard(pattern, target) == Len(target) >= Len(pattern)

\* Mutant: the whole target is compared with the suffix.
SuffixStart_FromZero(pattern, target) == 0

\* line 57: the low index of target[len(target)-len(m.pattern):]
SuffixStart(pattern, target) == Len(target) - Len(pattern)

\* Mutant: the comparison folds case ("A" is the capital of "a").
ExactMatch_FoldCase(pattern, target) ==
  LET Lower(x) == [i \in 1 .. Len(x) |-> IF x[i] = "A" THEN "a" ELSE x[i]]
  IN Lower(target) = Lower(pattern)

\* line 61: target == m.pattern
ExactMatch(pattern, target) == target = pattern

\* Matcher.Match panics: a slice expression is evaluated (the && before it
\* did not cut it short) with an index out of range.
MatchPanics(m, target) ==
  IF m.matchType = matchPrefix
    THEN PrefixGuard(m.pattern, target)
         /\ ~InRange(target, 0, Len(m.pattern))
  ELSE IF m.matchType = matchSuffix
    THEN SuffixGuard(m.pattern, target)
         /\ ~InRange(target, SuffixStart(m.pattern, target), Len(target))
  ELSE FALSE

\* Matcher.Match
Match(m, target) ==
  IF m.matchType = matchWildcard THEN WildcardMatch(target)
  ELSE IF m.matchType = matchPrefix
    THEN PrefixGuard(m.pattern, target)
         /\ Slice(target, 0, Len(m.pattern)) = m.pattern
  ELSE IF m.matchType = matchSuffix
    THEN SuffixGuard(m.pattern, target)
         /\ Slice(target, SuffixStart(m.pattern, target), Len(target)) = m.pattern
  ELSE IF m.matchType = matchContains
    THEN Contains(target, m.pattern)
  ELSE ExactMatch(m.pattern, target)

\* --------------------------------------------------------------- listeners
\* A listener value: its identity (the pointer), the name it reports through
\* Namable (NoName: it does not implement Namable), whether it implements
\* IsAsync, and the function its Handle calls: a function of the program
\* ("fn"), the no-op that returns nil ("noop"), a nil function ("nil"); the
\* nil Listener interface value has no Handle at all ("absent").
NoName == "-"

\* Mutant: the nil handle is kept as it is.
NewListener_KeepsNil(id, handle) ==
  [id |-> id, name |-> NoName, async |-> FALSE, handle |-> handle]

\* NewListener(handle): a nil handle is replaced by a function returning nil
NewListener(id, handle) ==
  [id |-> id, name |-> NoName, async |-> FALSE,
   handle |-> IF handle = "nil" THEN "noop" ELSE handle]

\* NewNamedListener(name, handle), with the same replacement
NewNamedListener(id, name, handle) ==
  [id |-> id, name |-> name, async |-> FALSE,
   handle |-> IF handle = "nil" THEN "noop" ELSE handle]

Listeners ==
  { NewListener(1, "fn"),
    NewNamedListener(2, "n1", "fn"),
    NewNamedListener(3, "n2", "fn"),
    [id |-> 4, name |-> "n1", async |-> TRUE, handle |-> "fn"] }

\* the listeners built with a nil handle, un-named and named
NilHandled == { NewListener(5, "nil"), NewNamedListener(6, "n1", "nil") }

\* `var l Listener` left nil: no dynamic type, so neither Namable nor IsAsync
NilListener == [id |-> 0, name |-> NoName, async |-> FALSE, handle |-> "absent"]

\* listener.(Namable)
IsNamable(l) == l.name # NoName

\* What a call of listener.Handle(event) can do: return nil, return one of
\* two error values, or panic.
Errors   == { "e1", "e2" }
Outcomes == { "ok", "panic" } \cup Errors

\* l.handle(event) in Handle, and the method call on the interface value:
\* the no-op returns nil, a nil function and a nil interface panic with a
\* nil dereference, a function of the program does any of the above.
HandleOutcomes(l) ==
  IF l.handle = "noop" THEN { "ok" }
  ELSE IF l.handle \in { "nil", "absent" } THEN { "panic" }
  ELSE Outcomes

\* ------------------------------------------------------------------ events
\* A []byte value: the nil slice, or a slice with its bytes (the empty
\* non-nil slice is Bytes(<<>>)).
NilBytes == [isNil |-> TRUE, bytes |-> << >>]
Bytes(b) == [isNil |-> FALSE, bytes |-> b]

\* An event: its Type(), whether it implements IsAsync, whether it
\* implements ErrorHandler, and its Payload().
Events == [name : Names, async : BOOLEAN, eh : BOOLEAN, payload : { NilBytes }]

\* NewEvent(eventType, payload): a plain event, neither IsAsync nor
\* ErrorHandler
NewEvent(eventType, payload) ==
  [name |-> eventType, async |-> FALSE, eh |-> FALSE, payload |-> payload]

\* no event
NoEvent == NewEvent(<< >>, NilBytes)

VARIABLES
  listeners,   \* Eventify.listeners: the sync.Map, event type -> []Listener
  mutex,       \* Eventify.mutex: Free or the thread holding Lock
  pc,          \* where each caller is
  loc,         \* Register's arguments and the slice it loaded
  pub,         \* each caller's latest Emit: collection and deliveries
  crashed,     \* an unrecovered panic on a delivery goroutine ended the process
  last,        \* history: the latest step that wrote the sync.Map
  regs,        \* history: Register calls returned, until the first Unregister
  quiet,       \* history: no write to the sync.Map since the caller's Emit began
  overlap,     \* history: a Register was called while another one, for the
               \* same event type, had not yet returned
  registered,  \* history: per event type, the listeners Register stored, in
               \* the order of the calls
  stack,       \* per caller: the Emits whose handler is running a nested Emit
  mt,          \* a matcher under test: its inputs, the Matcher and the result
  eng,         \* the engine's construction: the options given, Eventify.log
  cut,         \* history: per event type, how many listeners Register had
               \* stored under it when the latest Unregister call without
               \* listeners returned
  nRegs, nUnregs, nEmits

vars == << listeners, mutex, pc, loc, pub, crashed, last, regs, quiet,
           overlap, registered, stack, mt, eng, cut, nRegs, nUnregs, nEmits >>

\* ------------------------------------------------------------ construction
\* A Log value: the no-op logger &NoLog{}, a logger of the program, or the
\* nil interface value.
NoLog   == "NoLog"
UserLog == "UserLog"
NilLog  == "nil"

\* An OptionFunc value: the nil function, or the closure WithLogger(log)
NilOption       == [fn |-> "nil", log |-> NilLog]
WithLogger(log) == [fn |-> "WithLogger", log |-> log]
OptionFuncs     == { NilOption } \cup { WithLogger(l) : l \in { NoLog, UserLog, NilLog } }

\* NewOption(opts...): o.log starts as &NoLog{} and every opt is called on o
\* in turn; calling a nil function panics.
RECURSIVE ApplyOptions(_, _)
ApplyOptions(o, opts) ==
  IF opts = << >> THEN o
  ELSE IF Head(opts).fn = "nil" THEN [o EXCEPT !.panics = TRUE]
  ELSE ApplyOptions([o EXCEPT !.log = Head(opts).log], Tail(opts))

NewOption(opts) == ApplyOptions([log |-> NoLog, panics |-> FALSE], opts)

\* New(): NewEventify() with no option
DefaultEngine == [pc |-> "built", opts |-> << >>, log |-> NewOption(<< >>).log]

\* e.log.Debug(...): a method call on a nil interface value panics
LogPanics == eng.log = NilLog

Free == 0
\* regs: how often Register has returned for each (event type, listener),
\* kept until the first Unregister call
NoRegs == [tracking |-> TRUE, count |-> << >>]
Void == [tracking |-> FALSE, count |-> << >>]
Tracking(r) == r.tracking
RegCount(r, p, l) ==
  IF <<p, l.id>> \in DOMAIN r.count THEN r.count[<<p, l.id>>] ELSE 0
RegAdd(r, p, l) ==
  [tracking |-> TRUE,
   count |-> [k \in (DOMAIN r.count) \cup { <<p, l.id>> } |->
                IF k = <<p, l.id>> THEN RegCount(r, p, l) + 1 ELSE r.count[k]]]

\* ---------------------------------------------------------------- sync.Map
MapStore(m, k, v) == [x \in (DOMAIN m) \cup {k} |-> IF x = k THEN v ELSE m[x]]
MapDelete(m, k)   == [x \in (DOMAIN m) \ {k} |-> m[x]]
MapHas(m, k)      == k \in DOMAIN m
\* the slice under k, nil when the key is absent
MapGet(m, k)      == IF k \in DOMAIN m THEN m[k] ELSE <<>>

EmptyMap == [x \in {} |-> <<>>]

\* --------------------------------------------------------------- sequences
Count(s, x) == Cardinality({ i \in 1 .. Len(s) : s[i] = x })
SeqsUpTo(S, n) == UNION { [1 .. k -> S] : k \in 0 .. n }

\* a caller that is not inside Register
NoCall == [eventType |-> <<>>, listener |-> 0, loaded |-> <<>>]

\* a caller that has not called Emit yet
NoPub == [active |-> FALSE, ev |-> NoEvent, via |-> [how |-> "none"],
          keys0 |-> {}, visited |-> {}, acc |-> <<>>, idx |-> 1, dl |-> <<>>,
          fault |-> "none", returned |-> FALSE, log |-> <<>>, snaps |-> {},
          took |-> EmptyMap, whole |-> {}, cut |-> EmptyMap]

\* no matcher under test
NoMatch == [pc |-> "off", pattern |-> <<>>, name |-> <<>>, m |-> <<>>,
            res |-> FALSE]

RegistryInit ==
  /\ listeners = EmptyMap
  /\ mutex = Free
  /\ pc = [t \in Threads |-> "idle"]
  /\ loc = [t \in Threads |-> NoCall]
  /\ pub = [t \in Threads |-> NoPub]
  /\ crashed = FALSE
  /\ last = [op |-> "none"]
  /\ regs = NoRegs
  /\ quiet = [t \in Threads |-> FALSE]
  /\ overlap = FALSE
  /\ registered = EmptyMap
  /\ stack = [t \in Threads |-> <<>>]
  /\ cut = EmptyMap
  /\ nRegs = 0 /\ nUnregs = 0 /\ nEmits = 0

\* the engine that New() returns
EngineInit == RegistryInit /\ eng = DefaultEngine

\* NewEventify(opts...), lines 28-36
NewEventify ==
  /\ eng.pc = "new"
  /\ eng' = IF NewOption(eng.opts).panics
              THEN [eng EXCEPT !.pc = "panicked"]
              ELSE [eng EXCEPT !.pc = "built", !.log = NewOption(eng.opts).log]
  /\ UNCHANGED << listeners, mutex, pc, loc, pub, crashed, last, regs, quiet,
                  overlap, registered, stack, mt, nRegs, nUnregs, nEmits, cut >>

\* a new engine; no matcher is under test
Init == EngineInit /\ mt = NoMatch

\* -------------------------------------------------------------- the mutex
\* Mutant: Lock that excludes nobody (as if Register took no lock).
CanLock_NoExclusion(m) == TRUE

\* e.mutex.Lock(): the caller proceeds only when no other caller holds it.
CanLock(m) == m = Free

\* Mutant: Register returns without releasing the mutex (no deferred Unlock).
Unlock_Missing(m, t) == m

\* the deferred e.mutex.Unlock()
Unlock(m, t) == IF m = t THEN Free ELSE m

\* ------------------------------------------------------------ the callers
\* A caller is between two calls of the engine (idle), or it is the body of
\* a listener's Handle that an Emit called inline (handling): from both it
\* may call Register, Unregister and Emit.
CanCall(t) == pc[t] \in { "idle", "handling" }

\* the caller's latest Emit has neither returned nor panicked
InEmit(t) == pub[t].active /\ ~pub[t].returned /\ pub[t].fault = "none"

\* where a call of Register or Unregister returns to
ReturnPc(t) == IF InEmit(t) THEN "handling" ELSE "idle"

\* history: the body of the handler that is running on the caller's task
\* calls the engine's operation op
NoteCall(t, op) ==
  IF pc[t] = "handling"
    THEN [pub EXCEPT ![t].dl[pub[t].idx].made = @ \cup {op}]
    ELSE pub

\* history: the values the sync.Map has held during each Emit in progress
Observe(p, m) ==
  [u \in Threads |-> IF InEmit(u) THEN [p[u] EXCEPT !.snaps = @ \cup {m}]
                                  ELSE p[u]]

\* history: the values the sync.Map has held before or after the operations
\* of the registry that ran during each Emit in progress (m: the value after
\* an operation that has just ended)
ObserveWhole(p, m) ==
  [u \in Threads |-> IF InEmit(u) THEN [p[u] EXCEPT !.snaps = @ \cup {m},
                                                    !.whole = @ \cup {m}]
                                  ELSE p[u]]

\* the value of the sync.Map when the latest operation of the registry ended
\* (a Register that has created its key and not yet stored its slice is in
\* progress)
Stable == IF last.op = "LoadOrStore" THEN last.before ELSE listeners

\* ---------------------------------------------------------------- Register
InRegister(t) == pc[t] \in { "RegLock", "RegLoadOrStore", "RegStore" }

\* a caller calls Register(eventType, listener)
RegisterCall(t, eventType, listener) ==
  /\ ~crashed /\ CanCall(t)
  /\ pc' = [pc EXCEPT ![t] = "RegLock"]
  /\ loc' = [loc EXCEPT ![t] = [eventType |-> eventType, listener |-> listener,
                                loaded |-> <<>>]]
  /\ overlap' = (overlap \/ \E u \in Threads \ {t} :
                               InRegister(u) /\ loc[u].eventType = eventType)
  /\ pub' = NoteCall(t, "Register")
  /\ nRegs' = nRegs + 1
  /\ UNCHANGED << listeners, mutex, crashed, last, regs, quiet, registered,
                  stack, mt, nUnregs, nEmits, eng, cut >>

\* line 43: e.mutex.Lock() returns
RegisterLock(t) ==
  /\ ~crashed /\ pc[t] = "RegLock"
  /\ CanLock(mutex)
  /\ mutex' = t
  /\ pc' = [pc EXCEPT ![t] = "RegLoadOrStore"]
  /\ UNCHANGED << listeners, loc, pub, crashed, last, regs, quiet, overlap,
                  nRegs, nUnregs, nEmits, registered, stack, mt, eng, cut >>

\* line 45: listeners, _ := e.listeners.LoadOrStore(eventType, []Listener{})
RegisterLoadOrStore(t) ==
  /\ ~crashed /\ pc[t] = "RegLoadOrStore"
  /\ LET k == loc[t].eventType IN
       /\ loc' = [loc EXCEPT ![t].loaded = MapGet(listeners, k)]
       /\ IF MapHas(listeners, k)
            THEN UNCHANGED << listeners, last, quiet, pub >>
            ELSE /\ listeners' = MapStore(listeners, k, <<>>)
                 /\ last' = [op |-> "LoadOrStore", eventType |-> k,
                             before |-> listeners]
                 /\ quiet' = [u \in Threads |-> FALSE]
                 /\ pub' = Observe(pub, listeners')
  /\ pc' = [pc EXCEPT ![t] = "RegStore"]
  /\ UNCHANGED << mutex, crashed, regs, overlap, nRegs, nUnregs, nEmits, registered, stack, mt, eng, cut >>

\* line 46: e.listeners.Store(eventType, append(listeners, listener)); line
\* 47: e.log.Debug(...); then the deferred e.mutex.Unlock() and the return.
RegisterStore(t) ==
  /\ ~crashed /\ pc[t] = "RegStore"
  /\ LET k == loc[t].eventType
         l == loc[t].listener IN
       /\ listeners' = MapStore(listeners, k, Append(loc[t].loaded, l))
       /\ last' = [op |-> "Register", eventType |-> k, listener |-> l,
                   before |-> listeners]
       /\ regs' = IF ~Tracking(regs) THEN Void ELSE RegAdd(regs, k, l)
       /\ registered' = MapStore(registered, k, Append(MapGet(registered, k), l))
  /\ pub' = ObserveWhole(pub, listeners')
  /\ quiet' = [u \in Threads |-> FALSE]
  /\ mutex' = Unlock(mutex, t)
  /\ pc' = [pc EXCEPT ![t] = IF LogPanics THEN "panicked" ELSE ReturnPc(t)]
  /\ loc' = [loc EXCEPT ![t] = NoCall]
  /\ UNCHANGED << crashed, overlap, nRegs, nUnregs, nEmits, stack, mt, eng, cut >>

\* -------------------------------------------------------------- Unregister
\* lines 63-68 and 78-84: the elements that implement Namable, and the others
NamableOf(s)    == SelectSeq(s, IsNamable)
NotNamableOf(s) == SelectSeq(s, LAMBDA l : ~IsNamable(l))

\* lines 89-93, the inner loop: listener is appended once for every given
\* named listener whose name differs from its own.
RECURSIVE InnerLoop(_, _)
InnerLoop(listener, namedListeners) ==
  IF namedListeners = <<>> THEN <<>>
  ELSE (IF listener.name # Head(namedListeners).name THEN <<listener>> ELSE <<>>)
       \o InnerLoop(listener, Tail(namedListeners))

\* lines 88-94, the outer loop over lsCopy
RECURSIVE OuterLoop(_, _)
OuterLoop(lsCopy, namedListeners) ==
  IF lsCopy = <<>> THEN <<>>
  ELSE InnerLoop(Head(lsCopy), namedListeners)
       \o OuterLoop(Tail(lsCopy), namedListeners)

\* Mutant: the entry is emptied, not deleted.
UnregisterAllResult_StoreEmpty(m, eventType) == MapStore(m, eventType, <<>>)

\* Delete without effect: the entry of eventType stays as it was
UnregisterAllResult_Keeps(m, eventType) == m

\* Mutant: the entries of all patterns that match eventType as a name go.
UnregisterAllResult_ByMatch(m, eventType) ==
  [x \in { k \in DOMAIN m : k # eventType /\ ~Match(NewMatcher(k), eventType) }
     |-> m[x]]

\* line 58: e.listeners.Delete(eventType)
UnregisterAllResult(m, eventType) == MapDelete(m, eventType)

\* Mutant: the early returns of lines 69-75 and 85-87 are missing; the
\* rebuilt slice is stored in every case.
UnregisterNamedResult_AlwaysStores(m, eventType, given) ==
  MapStore(m, eventType,
           NotNamableOf(MapGet(m, eventType))
             \o OuterLoop(NamableOf(MapGet(m, eventType)), NamableOf(given)))

\* lines 63-95: the sync.Map after Unregister(eventType, given...), given
\* non-empty
UnregisterNamedResult(m, eventType, given) ==
  LET namedListeners == NamableOf(given) IN
  IF Len(namedListeners) = 0 THEN m
  ELSE IF ~MapHas(m, eventType) THEN m
  ELSE LET ls     == m[eventType]
           lsCopy == NamableOf(ls)
           newLs  == NotNamableOf(ls)
       IN IF Len(lsCopy) = 0 THEN m
          ELSE MapStore(m, eventType, newLs \o OuterLoop(lsCopy, namedListeners))

\* Unregister(eventType, given...): the whole call runs under the mutex and
\* touches the sync.Map with one Delete, or one Load and at most one Store.
Unregister(t, eventType, given) ==
  /\ ~crashed /\ CanCall(t)
  /\ CanLock(mutex)
  /\ listeners' = IF Len(given) = 0
                    THEN UnregisterAllResult(listeners, eventType)
                    ELSE IF LogPanics THEN listeners
                    ELSE UnregisterNamedResult(listeners, eventType, given)
  /\ pc' = IF Len(given) > 0 /\ LogPanics
             THEN [pc EXCEPT ![t] = "panicked"] ELSE pc
  /\ last' = [op |-> "Unregister", eventType |-> eventType, given |-> given,
              before |-> listeners]
  /\ regs' = Void
  /\ quiet' = [u \in Threads |-> IF listeners' = listeners THEN quiet[u] ELSE FALSE]
  /\ pub' = ObserveWhole(NoteCall(t, "Unregister"), listeners')
  /\ nUnregs' = nUnregs + 1
  /\ cut' = IF Len(given) = 0
              THEN MapStore(cut, eventType, Len(MapGet(registered, eventType)))
              ELSE cut
  /\ UNCHANGED << mutex, loc, crashed, overlap, nRegs, nEmits, registered,
                  stack, mt, eng >>

\* -------------------------------------------------------------------- Emit
\* One delivery of an Emit: what Handle did (out), how often Handle and the
\* event's ErrorHandler were called for it, what ErrorHandler was given, the
\* task Handle ran on (task: the caller's, or a goroutine) and the task
\* ErrorHandler ran on (cbTask: the caller's, or a goroutine of its own), and
\* whether the task that called Handle or ErrorHandler held the mutex then,
\* and the calls of the engine that the body of Handle made (made).
NewDelivery == [out |-> "none", calls |-> 0, task |-> "none", locked |-> FALSE,
                cb |-> "none", cbCalls |-> 0, cbTask |-> "none",
                cbArgs |-> << >>, made |-> {}, arg |-> NoEvent]

\* goroutines of the caller's latest Emit that have not finished
Pending(t) ==
  /\ pub[t].active
  /\ \E i \in 1 .. Len(pub[t].dl) :
        pub[t].dl[i].out = "launched" \/ pub[t].dl[i].cb = "launched"

\* _Emit(event), line 118: _MatchedListeners starts its Range over the
\* sync.Map.  No lock is taken.  Called from the body of a handler, the Emit
\* in progress waits on the stack for the nested one.  via: the call of the
\* engine that led here, with its arguments.
EmitBegin(t, event, via) ==
  /\ ~crashed /\ CanCall(t)
  /\ ~Pending(t)
  /\ pub' = [pub EXCEPT ![t] =
               [active |-> TRUE, ev |-> event, via |-> via,
                keys0 |-> DOMAIN listeners,
                visited |-> {}, acc |-> <<>>, idx |-> 1, dl |-> <<>>,
                fault |-> "none", returned |-> FALSE, log |-> <<>>,
                snaps |-> { listeners }, took |-> EmptyMap,
                whole |-> { Stable }, cut |-> cut]]
  /\ stack' = [stack EXCEPT ![t] =
                 IF pc[t] = "handling"
                   THEN << [pub |-> NoteCall(t, "Emit")[t],
                            quiet |-> quiet[t]] >> \o @
                   ELSE @]
  /\ quiet' = [quiet EXCEPT ![t] = TRUE]
  /\ pc' = [pc EXCEPT ![t] = "range"]
  /\ nEmits' = nEmits + 1
  /\ UNCHANGED << listeners, mutex, loc, crashed, last, regs, overlap,
                  registered, mt, nRegs, nUnregs, eng, cut >>

\* Emit(event), lines 101-103
EmitStart(t, event) == EmitBegin(t, event, [how |-> "Emit"])

\* A value of the type `any` handed to EmitBy as the payload: the nil
\* interface, a string, a []byte, an int, a channel, or an Event.
NilValue       == [kind |-> "nil",    val |-> << >>]
StringValue(s) == [kind |-> "string", val |-> s]
BytesValue(b)  == [kind |-> "bytes",  val |-> b]
IntValue(n)    == [kind |-> "int",    val |-> n]
ChanValue      == [kind |-> "chan",   val |-> << >>]
EventValue(e)  == [kind |-> "event",  val |-> e]

\* payload.(Event)
IsEvent(payload) == payload.kind = "event"

\* the byte of a character in a Go string (UTF-8, all of them ASCII here)
Code(c) ==
  CASE c = "u" -> 117 [] c = "p" -> 112 [] c = "x" -> 120
    [] c = "a" -> 97  [] c = "A" -> 65  [] c = " " -> 32
    [] c = Star -> 42

\* []byte(p) of a string p: a non-nil slice, empty for the empty string
StringBytes(s) == Bytes([i \in 1 .. Len(s) |-> Code(s[i])])

\* the decimal digits of a natural number, as bytes
RECURSIVE Decimal(_)
Decimal(n) ==
  IF n < 10 THEN << 48 + n >> ELSE Decimal(n \div 10) \o << 48 + (n % 10) >>

\* json.Marshal(payload): an int gives its decimal digits, a channel is an
\* unsupported type
Marshal(payload) ==
  IF payload.kind = "int"
    THEN [err |-> FALSE, bz |-> Decimal(payload.val)]
    ELSE [err |-> TRUE, bz |-> << >>]

\* Mutant: the `case string` is missing, a string is marshalled to its JSON
\* form between double quotes.
AnyToBytes_StringAsJSON(payload) ==
  IF payload.kind = "nil" THEN NilBytes
  ELSE IF payload.kind = "string"
    THEN Bytes(<< 34 >> \o StringBytes(payload.val).bytes \o << 34 >>)
  ELSE IF payload.kind = "bytes" THEN payload.val
  ELSE IF Marshal(payload).err THEN NilBytes
  ELSE Bytes(Marshal(payload).bz)

\* _AnyToBytes(payload), lines 153-169
AnyToBytes(payload) ==
  IF payload.kind = "nil" THEN NilBytes
  ELSE IF payload.kind = "string" THEN StringBytes(payload.val)
  ELSE IF payload.kind = "bytes" THEN payload.val
  ELSE IF Marshal(payload).err THEN NilBytes
  ELSE Bytes(Marshal(payload).bz)

\* Mutant: an Event payload is published under the type argument.
EmitByEvent_TypeArgument(eventType, payload) ==
  IF IsEvent(payload) THEN [payload.val EXCEPT !.name = eventType]
  ELSE NewEvent(eventType, AnyToBytes(payload))

\* lines 110-114: the event that EmitBy hands to _Emit
EmitByEvent(eventType, payload) ==
  IF IsEvent(payload) THEN payload.val
  ELSE NewEvent(eventType, AnyToBytes(payload))

\* EmitBy(eventType, payload), lines 109-115
EmitBy(t, eventType, payload) ==
  EmitBegin(t, EmitByEvent(eventType, payload),
            [how |-> "EmitBy", eventType |-> eventType, payload |-> payload])

\* Mutant: `listeners = value` in place of `listeners = append(listeners, value...)`.
MatchedAppend_Overwrite(acc, key, value, eventType) ==
  IF Match(NewMatcher(key), eventType) THEN value ELSE acc

\* Mutant: a listener already collected is not collected again.
MatchedAppend_Dedup(acc, key, value, eventType) ==
  IF Match(NewMatcher(key), eventType)
    THEN acc \o SelectSeq(value, LAMBDA x : \A i \in 1 .. Len(acc) : acc[i] # x)
    ELSE acc

\* lines 145-147, the body of the Range callback for one key
MatchedAppend(acc, key, value, eventType) ==
  IF Match(NewMatcher(key), eventType) THEN acc \o value ELSE acc

\* Mutant: the slice is read while its last element is not yet in place.
RangeValue_Torn(m, k) == SubSeq(m[k], 1, Len(m[k]) - 1)

\* the value that Range hands to its callback for key k: the slice stored
\* under k, as a whole
RangeValue(m, k) == m[k]

\* sync.Map.Range visits one key: each key at most once, with the value the
\* key holds at the moment of the visit.
RangeStep(t) ==
  /\ ~crashed /\ pc[t] = "range"
  /\ \E k \in (DOMAIN listeners) \ pub[t].visited :
       IF NewMatcher(k).panics
         THEN /\ pub' = [pub EXCEPT ![t].visited = @ \cup {k},
                                    ![t].fault = "matcher"]
              /\ pc' = [pc EXCEPT ![t] = "panicked"]
         ELSE /\ pub' = [pub EXCEPT
                   ![t].visited = @ \cup {k},
                   ![t].took = MapStore(@, k, RangeValue(listeners, k)),
                   ![t].acc = MatchedAppend(@, k, RangeValue(listeners, k),
                                            pub[t].ev.name)]
              /\ UNCHANGED pc
  /\ UNCHANGED << listeners, mutex, loc, crashed, last, regs, quiet, overlap,
                  registered, stack, mt, nRegs, nUnregs, nEmits, eng, cut >>

\* Range returns: every key that was in the map when Range began and still is
\* there has been visited (keys stored meanwhile may or may not have been).
RangeEnd(t) ==
  /\ ~crashed /\ pc[t] = "range"
  /\ (pub[t].keys0 \cap DOMAIN listeners) \subseteq pub[t].visited
  /\ pub' = [pub EXCEPT ![t].dl = [i \in 1 .. Len(pub[t].acc) |-> NewDelivery]]
  /\ pc' = [pc EXCEPT ![t] = "deliver"]
  /\ UNCHANGED << listeners, mutex, loc, crashed, last, regs, quiet, overlap,
                  registered, stack, mt, nRegs, nUnregs, nEmits, eng, cut >>

\* Mutant: every delivery goes to a goroutine.
IsAsyncDelivery_Always(event, listener) == TRUE

\* Mutant: only the event's IsAsync counts.
IsAsyncDelivery_EventOnly(event, listener) == event.async

\* lines 119-122: isAsyncEvent || isAsyncListener
IsAsyncDelivery(event, listener) == event.async \/ listener.async

\* Mutant: the `err != nil` test is dropped.
CallsErrorHandler_OnSuccess(event, out) == out # "panic" /\ event.eh

\* lines 131 and 137: err != nil && hasErrorHandler
CallsErrorHandler(event, out) == out \in Errors /\ event.eh

\* lines 132 and 138: errHandler.ErrorHandler(event, err)
ErrorHandlerArgs(event, err) == [event |-> event, err |-> err]

\* Mutant: the loop is left at the first error (`return` on err != nil).
TriggerNext_StopOnError(event, o) ==
  IF o = "panic" THEN "panicked"
  ELSE IF o \in Errors THEN "stopped"
  ELSE "deliver"

\* lines 137-139 and the loop of lines 120-123: where the caller is after
\* listener.Handle(event) has run inline with outcome o.  A panic unwinds
\* _Trigger and _Emit (nothing recovers it); an error goes to the event's
\* ErrorHandler when it has one; otherwise the loop goes on.
TriggerNext(event, o) ==
  IF o = "panic" THEN "panicked"
  ELSE IF CallsErrorHandler(event, o) THEN "errhandler"
  ELSE "deliver"

\* line 137, the call: listener.Handle(event) is entered on the caller's task
HandleCalled(t, p) ==
  LET i == p.idx IN
  [p EXCEPT !.dl[i].task = "caller",
            !.dl[i].arg = p.ev,
            !.dl[i].locked = (mutex = t),
            !.log = Append(@, [op |-> "Handle", i |-> i])]

\* lines 137-139, the return: Handle has ended with outcome o
\* the loop of _Emit consulting the registry again after each handler: the
\* collected listeners still to be invoked are dropped when no matching entry
\* lists them any more
HandleReturned_Live(p, o) ==
  LET i == p.idx
      listed(l) == \E k \in DOMAIN listeners :
                      /\ ~NewMatcher(k).panics
                      /\ Match(NewMatcher(k), p.ev.name)
                      /\ \E n \in 1 .. Len(listeners[k]) : listeners[k][n] = l
  IN
  [p EXCEPT !.dl[i].out = o,
            !.dl[i].calls = @ + 1,
            !.idx = IF TriggerNext(p.ev, o) = "deliver" THEN i + 1 ELSE i,
            !.fault = IF o = "panic" THEN "handler" ELSE @,
            !.acc = SubSeq(@, 1, i)
                      \o SelectSeq(SubSeq(@, i + 1, Len(@)), listed)]

HandleReturned(p, o) ==
  LET i == p.idx IN
  [p EXCEPT !.dl[i].out = o,
            !.dl[i].calls = @ + 1,
            !.idx = IF TriggerNext(p.ev, o) = "deliver" THEN i + 1 ELSE i,
            !.fault = IF o = "panic" THEN "handler" ELSE @]

\* _Trigger(event, listener, async) for the listener at idx:
\*   async: `go func() {...}()` is launched and _Trigger returns;
\*   otherwise listener.Handle(event) runs inline with outcome o.
Trigger(t, o) ==
  /\ ~crashed /\ pc[t] = "deliver" /\ pub[t].idx <= Len(pub[t].acc)
  /\ LET i == pub[t].idx
         l == pub[t].acc[i]
         e == pub[t].ev
     IN IF IsAsyncDelivery(e, l)
          THEN /\ pub' = [pub EXCEPT ![t].dl[i].out = "launched",
                                     ![t].idx = i + 1]
               /\ UNCHANGED pc
          ELSE /\ o \in HandleOutcomes(l)
               /\ pub' = [pub EXCEPT
                    ![t] = HandleReturned(HandleCalled(t, pub[t]), o)]
               /\ pc' = [pc EXCEPT ![t] = TriggerNext(e, o)]
  /\ UNCHANGED << listeners, mutex, loc, crashed, last, regs, quiet, overlap,
                  registered, stack, mt, nRegs, nUnregs, nEmits, eng, cut >>

\* The same inline call in two steps, for a handler whose body calls the
\* engine: Handle is entered ...
HandleEnter(t) ==
  /\ ~crashed /\ pc[t] = "deliver" /\ pub[t].idx <= Len(pub[t].acc)
  /\ ~IsAsyncDelivery(pub[t].ev, pub[t].acc[pub[t].idx])
  /\ pub' = [pub EXCEPT ![t] = HandleCalled(t, pub[t])]
  /\ pc' = [pc EXCEPT ![t] = "handling"]
  /\ UNCHANGED << listeners, mutex, loc, crashed, last, regs, quiet, overlap,
                  registered, stack, mt, nRegs, nUnregs, nEmits, eng, cut >>

\* ... and, after the calls its body made have returned, ends with outcome o.
HandleReturn(t, o) ==
  /\ ~crashed /\ pc[t] = "handling"
  /\ o \in HandleOutcomes(pub[t].acc[pub[t].idx])
  /\ pub' = [pub EXCEPT ![t] = HandleReturned(pub[t], o)]
  /\ pc' = [pc EXCEPT ![t] = TriggerNext(pub[t].ev, o)]
  /\ UNCHANGED << listeners, mutex, loc, crashed, last, regs, quiet, overlap,
                  registered, stack, mt, nRegs, nUnregs, nEmits, eng, cut >>

\* line 138: errHandler.ErrorHandler(event, err), inline on the caller
ErrorHandlerInline(t) ==
  /\ ~crashed /\ pc[t] = "errhandler"
  /\ LET i == pub[t].idx IN
       pub' = [pub EXCEPT
                 ![t].dl[i].cb = "done",
                 ![t].dl[i].cbCalls = @ + 1,
                 ![t].dl[i].cbTask = "caller",
                 ![t].dl[i].locked = (@ \/ mutex = t),
                 ![t].dl[i].cbArgs = ErrorHandlerArgs(pub[t].ev, pub[t].dl[i].out),
                 ![t].log = Append(@, [op |-> "ErrorHandler", i |-> i]),
                 ![t].idx = i + 1]
  /\ pc' = [pc EXCEPT ![t] = "deliver"]
  /\ UNCHANGED << listeners, mutex, loc, crashed, last, regs, quiet, overlap,
                  registered, stack, mt, nRegs, nUnregs, nEmits, eng, cut >>

\* Mutant: _Emit waits for the goroutines it launched (a WaitGroup).
LoopDone_Join(p) ==
  /\ p.idx > Len(p.acc)
  /\ \A i \in 1 .. Len(p.dl) : p.dl[i].out # "launched" /\ p.dl[i].cb # "launched"

\* lines 120-123: the loop over the collected listeners is over; nothing
\* waits for the goroutines.
LoopDone(p) == p.idx > Len(p.acc)

\* lines 123-125: _Emit returns to the caller: to the code that called Emit
\* or, for a nested Emit, into the body of the handler that called it.
EmitReturn(t) ==
  /\ ~crashed /\ pc[t] = "deliver" /\ LoopDone(pub[t])
  /\ ~LogPanics
  /\ IF stack[t] = <<>>
       THEN /\ pub' = [pub EXCEPT ![t].returned = TRUE]
            /\ pc' = [pc EXCEPT ![t] = "idle"]
            /\ UNCHANGED << stack, quiet >>
       ELSE LET f == Head(stack[t]) IN
            /\ pub' = [pub EXCEPT ![t] =
                         [f.pub EXCEPT !.snaps = @ \cup pub[t].snaps,
                                       !.whole = @ \cup pub[t].whole]]
            /\ pc' = [pc EXCEPT ![t] = "handling"]
            /\ stack' = [stack EXCEPT ![t] = Tail(@)]
            /\ quiet' = [quiet EXCEPT ![t] = @ /\ f.quiet]
  /\ UNCHANGED << listeners, mutex, loc, crashed, last, regs, overlap,
                  registered, mt, nRegs, nUnregs, nEmits, eng, cut >>

\* line 124: e.log.Debug(...) at the end of _Emit, with a nil Log
EmitLogPanics(t) ==
  /\ ~crashed /\ pc[t] = "deliver" /\ LoopDone(pub[t])
  /\ LogPanics
  /\ pub' = [pub EXCEPT ![t].fault = "log"]
  /\ pc' = [pc EXCEPT ![t] = "panicked"]
  /\ UNCHANGED << listeners, mutex, loc, crashed, last, regs, quiet, overlap,
                  registered, stack, mt, eng, nRegs, nUnregs, nEmits, cut >>

\* Mutant: the goroutine of the delivery calls ErrorHandler itself (no `go`
\* on line 132).
GoTrigger_CallbackInline(d, event, o) ==
  [d EXCEPT !.out = o, !.calls = @ + 1, !.task = "goroutine", !.arg = event,
            !.cb = IF CallsErrorHandler(event, o) THEN "done" ELSE @,
            !.cbCalls = IF CallsErrorHandler(event, o) THEN @ + 1 ELSE @,
            !.cbTask = IF CallsErrorHandler(event, o) THEN "goroutine" ELSE @,
            !.cbArgs = IF CallsErrorHandler(event, o)
                         THEN ErrorHandlerArgs(event, o) ELSE @]

\* lines 130-134, the body of the goroutine of an asynchronous delivery:
\* listener.Handle(event) ends with outcome o; on an error, and when the event
\* has an ErrorHandler, `go errHandler.ErrorHandler(event, err)` is launched.
GoTrigger(d, event, o) ==
  [d EXCEPT !.out = o, !.calls = @ + 1, !.task = "goroutine", !.arg = event,
            !.cb = IF CallsErrorHandler(event, o) THEN "launched" ELSE @,
            !.cbArgs = IF CallsErrorHandler(event, o)
                         THEN ErrorHandlerArgs(event, o) ELSE @]

\* The goroutine of an asynchronous delivery runs to its end (a handler that
\* never returns is this step never taken); a panic in it is recovered by
\* nobody and ends the process.
GoHandle(t, i, o) ==
  /\ ~crashed /\ pub[t].active
  /\ i \in 1 .. Len(pub[t].dl) /\ pub[t].dl[i].out = "launched"
  /\ o \in HandleOutcomes(pub[t].acc[i])
  /\ pub' = [pub EXCEPT ![t].dl[i] = GoTrigger(@, pub[t].ev, o)]
  /\ crashed' = (o = "panic")
  /\ UNCHANGED << listeners, mutex, pc, loc, last, regs, quiet, overlap,
                  registered, stack, mt, nRegs, nUnregs, nEmits, eng, cut >>

\* line 132: the goroutine of `go errHandler.ErrorHandler(event, err)` runs
\* to its end (an ErrorHandler that never returns is this step never taken)
GoErrorHandler(t, i) ==
  /\ ~crashed /\ pub[t].active
  /\ i \in 1 .. Len(pub[t].dl) /\ pub[t].dl[i].cb = "launched"
  /\ pub' = [pub EXCEPT ![t].dl[i].cb = "done",
                        ![t].dl[i].cbCalls = @ + 1,
                        ![t].dl[i].cbTask = "own"]
  /\ UNCHANGED << listeners, mutex, pc, loc, crashed, last, regs, quiet,
                  overlap, registered, stack, mt, nRegs, nUnregs, nEmits, eng, cut >>

\* ----------------------------------------------------------- specifications
\* Spec: one caller registers listeners and emits events; the deliveries and
\* the error handlers of asynchronous deliveries run on their own goroutines.
Caller == { 1 }
DispatchListeners == { l \in Listeners : l.id \in { 1, 2, 4 } }

Next ==
  \/ /\ nRegs < MaxRegs
     /\ \E t \in Caller, p \in Patterns, l \in DispatchListeners :
           RegisterCall(t, p, l)
  \/ \E t \in Caller : RegisterLock(t)
  \/ \E t \in Caller : RegisterLoadOrStore(t)
  \/ \E t \in Caller : RegisterStore(t)
  \/ /\ nEmits < MaxEmits
     /\ \E t \in Caller, e \in Events : EmitStart(t, e)
  \/ \E t \in Caller : RangeStep(t)
  \/ \E t \in Caller : RangeEnd(t)
  \/ \E t \in Caller, o \in Outcomes : Trigger(t, o)
  \/ \E t \in Caller : ErrorHandlerInline(t)
  \/ \E t \in Caller : EmitReturn(t)
  \/ \E t \in Caller : \E i \in 1 .. Len(pub[t].dl), o \in Outcomes :
        GoHandle(t, i, o)
  \/ \E t \in Caller : \E i \in 1 .. Len(pub[t].dl) : GoErrorHandler(t, i)

Spec == Init /\ [][Next]_vars

\* SpecRegistry: one caller registers and unregisters listeners.
RegistryPatterns == { <<"u", Star>>, <<"u", "x">> }

NextRegistry ==
  \/ /\ nRegs < RegistryRegs
     /\ \E t \in Caller, p \in RegistryPatterns, l \in Listeners :
           RegisterCall(t, p, l)
  \/ \E t \in Caller : RegisterLock(t)
  \/ \E t \in Caller : RegisterLoadOrStore(t)
  \/ \E t \in Caller : RegisterStore(t)
  \/ /\ nUnregs < RegistryUnregs
     /\ \E t \in Caller, p \in RegistryPatterns,
           g \in SeqsUpTo(Listeners, MaxGiven) : Unregister(t, p, g)

SpecRegistry == Init /\ [][NextRegistry]_vars

\* SpecConcurrent: several callers register listeners under one event type
\* and emit a matching event, all at the same time.
ConcPatterns  == { <<"u", Star>> }
ConcListeners == { l \in Listeners : l.id \in { 1, 2 } }
ConcEvents    == { e \in Events : e.name = <<"u", "p">> /\ ~e.async /\ ~e.eh }

NextConcurrent ==
  \/ /\ nRegs < ConcRegs
     /\ \E t \in Threads, p \in ConcPatterns, l \in ConcListeners :
           RegisterCall(t, p, l)
  \/ \E t \in Threads : RegisterLock(t)
  \/ \E t \in Threads : RegisterLoadOrStore(t)
  \/ \E t \in Threads : RegisterStore(t)
  \/ /\ nEmits < ConcEmits
     /\ \E t \in Threads, e \in ConcEvents : EmitStart(t, e)
  \/ \E t \in Threads : RangeStep(t)
  \/ \E t \in Threads : RangeEnd(t)
  \/ \E t \in Threads : Trigger(t, "ok")
  \/ \E t \in Threads : EmitReturn(t)

SpecConcurrent == Init /\ [][NextConcurrent]_vars

\* SpecChurn: one caller emits an event that both patterns match while
\* another caller registers and unregisters listeners.
Publisher == CHOOSE t \in Threads : \A u \in Threads : t <= u
Writer    == Publisher + 1
ChurnPatterns  == { <<"u", Star>>, <<Star, "p">> }
ChurnListeners == { l \in Listeners : l.id \in { 1, 2 } }
ChurnGiven     == { <<>> } \cup { << l >> : l \in { x \in Listeners : x.id = 3 } }
ChurnEvents    == { e \in Events : e.name = <<"u", "p">> /\ ~e.async /\ ~e.eh }

NextChurn ==
  \/ /\ nRegs < ChurnRegs
     /\ \E p \in ChurnPatterns, l \in ChurnListeners : RegisterCall(Writer, p, l)
  \/ RegisterLock(Writer)
  \/ RegisterLoadOrStore(Writer)
  \/ RegisterStore(Writer)
  \/ /\ nUnregs < ChurnUnregs
     /\ \E p \in ChurnPatterns, g \in ChurnGiven : Unregister(Writer, p, g)
  \/ /\ nEmits < ChurnEmits
     /\ \E e \in ChurnEvents : EmitStart(Publisher, e)
  \/ RangeStep(Publisher)
  \/ RangeEnd(Publisher)
  \/ Trigger(Publisher, "ok")
  \/ EmitReturn(Publisher)

SpecChurn == Init /\ [][NextChurn]_vars

\* SpecFair: one caller registers a plain and an IsAsync listener and emits.
\* The caller's own task keeps running: once inside Emit it takes its next
\* step (the handlers and ErrorHandlers it calls inline return).  Nothing is
\* assumed of the goroutines: a handler or an ErrorHandler running on one may
\* never return.
FairPatterns  == { <<"u", Star>> }
FairListeners == { l \in Listeners : l.id \in { 1, 4 } }
FairEvents    == { e \in Events : e.name = <<"u", "p">> }

CallerStep(t) ==
  \/ RangeStep(t)
  \/ RangeEnd(t)
  \/ \E o \in Outcomes : Trigger(t, o)
  \/ ErrorHandlerInline(t)
  \/ EmitReturn(t)

NextFair ==
  \/ /\ nRegs < FairRegs
     /\ \E t \in Caller, p \in FairPatterns, l \in FairListeners :
           RegisterCall(t, p, l)
  \/ \E t \in Caller : RegisterLock(t)
  \/ \E t \in Caller : RegisterLoadOrStore(t)
  \/ \E t \in Caller : RegisterStore(t)
  \/ /\ nEmits < FairEmits
     /\ \E t \in Caller, e \in FairEvents : EmitStart(t, e)
  \/ \E t \in Caller : CallerStep(t)
  \/ \E t \in Caller : \E i \in 1 .. Len(pub[t].dl), o \in Outcomes :
        GoHandle(t, i, o)
  \/ \E t \in Caller : \E i \in 1 .. Len(pub[t].dl) : GoErrorHandler(t, i)

SpecFair == Init /\ [][NextFair]_vars /\ \A t \in Caller : WF_vars(CallerStep(t))

\* SpecReentrant: the handlers of the publisher's Emit call Register,
\* Unregister and Emit on the same engine from their bodies.
ReThreads   == { Publisher }
RePatterns  == { <<"u", Star>> }
ReListeners == { l \in Listeners : l.id = 1 }
ReGiven     == { <<>> } \cup { << l >> : l \in { x \in Listeners : x.id = 2 } }
ReEvents    == { e \in Events : e.name = <<"u", "p">> /\ ~e.async }
ReOutcomes  == { "ok", "e1" }

NextReentrant ==
  \/ /\ nRegs < ReRegs
     /\ \E t \in ReThreads, p \in RePatterns, l \in ReListeners :
           RegisterCall(t, p, l)
  \/ \E t \in ReThreads : RegisterLock(t)
  \/ \E t \in ReThreads : RegisterLoadOrStore(t)
  \/ \E t \in ReThreads : RegisterStore(t)
  \/ /\ nUnregs < ReUnregs
     /\ \E p \in RePatterns, g \in ReGiven : Unregister(Publisher, p, g)
  \/ /\ nEmits < ReEmits
     /\ pc[Publisher] = "handling" => Len(stack[Publisher]) < MaxDepth
     /\ \E e \in ReEvents : EmitStart(Publisher, e)
  \/ RangeStep(Publisher)
  \/ RangeEnd(Publisher)
  \/ HandleEnter(Publisher)
  \/ \E o \in ReOutcomes : HandleReturn(Publisher, o)
  \/ ErrorHandlerInline(Publisher)
  \/ EmitReturn(Publisher)

SpecReentrant == Init /\ [][NextReentrant]_vars

\* SpecMatcher: the matcher alone.  A pattern and a name are drawn from the
\* strings of at most MaxLen characters over a lower-case letter, its
\* capital, the blank and the wildcard marker; NewMatcher compiles the
\* pattern, then Match is applied to the name.
Alphabet == { "a", "A", " ", Star }
Strings  == SeqsUpTo(Alphabet, MaxLen)

InitMatcher ==
  /\ EngineInit
  /\ mt \in [pc : { "new" }, pattern : Strings, name : Strings, m : { <<>> },
             res : { FALSE }]

\* m := NewMatcher(pattern)
MatcherNew ==
  /\ mt.pc = "new"
  /\ mt' = IF NewMatcher(mt.pattern).panics
             THEN [mt EXCEPT !.pc = "panicked"]
             ELSE [mt EXCEPT !.pc = "compiled", !.m = NewMatcher(mt.pattern)]
  /\ UNCHANGED << listeners, mutex, pc, loc, pub, crashed, last, regs, quiet,
                  overlap, registered, stack, nRegs, nUnregs, nEmits, eng, cut >>

\* res := m.Match(name)
MatcherMatch ==
  /\ mt.pc = "compiled"
  /\ mt' = IF MatchPanics(mt.m, mt.name)
             THEN [mt EXCEPT !.pc = "panicked"]
             ELSE [mt EXCEPT !.pc = "matched", !.res = Match(mt.m, mt.name)]
  /\ UNCHANGED << listeners, mutex, pc, loc, pub, crashed, last, regs, quiet,
                  overlap, registered, stack, nRegs, nUnregs, nEmits, eng, cut >>

NextMatcher == MatcherNew \/ MatcherMatch

SpecMatcher == InitMatcher /\ [][NextMatcher]_vars

\* SpecEmitBy: one caller registers synchronous listeners and publishes with
\* EmitBy, the payload being a value of any kind or an Event.
ByPatterns  == { <<"u", "x">>, <<Star, "p">> }
ByTypes     == { <<"u", "x">>, <<"u", "p">> }
ByListeners == { l \in Listeners : l.id \in { 1, 2 } }
ByOutcomes  == { "ok", "e1" }
ByEvents    == [name : ByTypes, async : { FALSE }, eh : BOOLEAN,
                payload : { NilBytes, Bytes(<< 117 >>) }]
ByPayloads  ==
  { NilValue, ChanValue, StringValue(<< >>), StringValue(<<"u", "p">>),
    BytesValue(NilBytes), BytesValue(Bytes(<< >>)), BytesValue(Bytes(<< 117, 0 >>)),
    IntValue(7), IntValue(120) }
    \cup { EventValue(e) : e \in ByEvents }

NextEmitBy ==
  \/ /\ nRegs < ByRegs
     /\ \E t \in Caller, p \in ByPatterns, l \in ByListeners :
           RegisterCall(t, p, l)
  \/ \E t \in Caller : RegisterLock(t)
  \/ \E t \in Caller : RegisterLoadOrStore(t)
  \/ \E t \in Caller : RegisterStore(t)
  \/ /\ nEmits < ByEmits
     /\ \E t \in Caller, x \in ByTypes, y \in ByPayloads : EmitBy(t, x, y)
  \/ \E t \in Caller : RangeStep(t)
  \/ \E t \in Caller : RangeEnd(t)
  \/ \E t \in Caller, o \in ByOutcomes : Trigger(t, o)
  \/ \E t \in Caller : ErrorHandlerInline(t)
  \/ \E t \in Caller : EmitReturn(t)

SpecEmitBy == Init /\ [][NextEmitBy]_vars

\* SpecConstruct: an engine is built by NewEventify with up to MaxOpts
\* options, the nil OptionFunc among them, and then used by one caller.
NewPatterns  == { <<"u", Star>> }
NewListeners == { l \in Listeners : l.id \in { 1, 2 } }
NewGiven     == { << >> } \cup { << l >> : l \in NewListeners }
NewEvents    == { e \in Events : e.name = <<"u", "p">> /\ ~e.async /\ ~e.eh }

InitConstruct ==
  /\ RegistryInit
  /\ mt = NoMatch
  /\ eng \in [pc : { "new" }, opts : SeqsUpTo(OptionFuncs, MaxOpts),
              log : { NilLog }]

NextConstruct ==
  \/ NewEventify
  \/ /\ eng.pc = "built" /\ nRegs < NewRegs
     /\ \E t \in Caller, p \in NewPatterns, l \in NewListeners :
           RegisterCall(t, p, l)
  \/ \E t \in Caller : RegisterLock(t)
  \/ \E t \in Caller : RegisterLoadOrStore(t)
  \/ \E t \in Caller : RegisterStore(t)
  \/ /\ eng.pc = "built" /\ nUnregs < NewUnregs
     /\ \E t \in Caller, p \in NewPatterns, g \in NewGiven : Unregister(t, p, g)
  \/ /\ eng.pc = "built" /\ nEmits < NewEmits
     /\ \E t \in Caller, e \in NewEvents : EmitStart(t, e)
  \/ \E t \in Caller : RangeStep(t)
  \/ \E t \in Caller : RangeEnd(t)
  \/ \E t \in Caller : Trigger(t, "ok")
  \/ \E t \in Caller : EmitReturn(t)
  \/ \E t \in Caller : EmitLogPanics(t)

SpecConstruct == InitConstruct /\ [][NextConstruct]_vars

\* SpecNil: one caller registers, unregisters and publishes with absent
\* values among the arguments: listeners built with a nil handle, and the
\* nil Listener itself.
NilPatterns    == { <<"u", Star>> }
NilSubscribers ==
  NilHandled \cup { NilListener } \cup { l \in Listeners : l.id = 1 }
NilGiven       == { << NilListener >> } \cup { << l >> : l \in NilHandled }
NilEvents      == { e \in Events : e.name = <<"u", "p">> /\ ~e.async }

NextNil ==
  \/ /\ nRegs < NilRegs
     /\ \E t \in Caller, p \in NilPatterns, l \in NilSubscribers :
           RegisterCall(t, p, l)
  \/ \E t \in Caller : RegisterLock(t)
  \/ \E t \in Caller : RegisterLoadOrStore(t)
  \/ \E t \in Caller : RegisterStore(t)
  \/ /\ nUnregs < NilUnregs
     /\ \E t \in Caller, p \in NilPatterns, g \in NilGiven : Unregister(t, p, g)
  \/ /\ nEmits < NilEmits
     /\ \E t \in Caller, e \in NilEvents : EmitStart(t, e)
  \/ \E t \in Caller : RangeStep(t)
  \/ \E t \in Caller : RangeEnd(t)
  \/ \E t \in Caller, o \in Outcomes : Trigger(t, o)
  \/ \E t \in Caller : ErrorHandlerInline(t)
  \/ \E t \in Caller : EmitReturn(t)

SpecNil == Init /\ [][NextNil]_vars

\* ------------------------------------------------------------------ claims
\* What the claims speak of: the elements of a slice, the number of calls of
\* a listener's Handle within a caller's Emit, and the matching relation of
\* a pattern and an event name as the specification states it (rules 1-5).
Elems(s) == { s[i] : i \in 1 .. Len(s) }

RECURSIVE SumCalls(_, _, _)
SumCalls(t, l, n) ==
  IF n = 0 THEN 0
  ELSE SumCalls(t, l, n - 1)
       + (IF pub[t].acc[n] = l THEN pub[t].dl[n].calls ELSE 0)

Invocations(t, l) == SumCalls(t, l, Len(pub[t].dl))

StartsWith(name, a) == Len(name) >= Len(a) /\ SubSeq(name, 1, Len(a)) = a
EndsWith(name, a) ==
  Len(name) >= Len(a) /\ SubSeq(name, Len(name) - Len(a) + 1, Len(name)) = a
HasInfix(name, a) ==
  \E i \in 0 .. (Len(name) - Len(a)) : SubSeq(name, i + 1, i + Len(a)) = a

Matches(p, name) ==
  IF p = <<Star>> THEN TRUE
  ELSE IF Len(p) > 1 /\ Head(p) = Star /\ p[Len(p)] = Star
    THEN HasInfix(name, SubSeq(p, 2, Len(p) - 1))
  ELSE IF Len(p) > 0 /\ Head(p) = Star THEN EndsWith(name, Tail(p))
  ELSE IF Len(p) > 0 /\ p[Len(p)] = Star
    THEN StartsWith(name, SubSeq(p, 1, Len(p) - 1))
  ELSE name = p

\* the caller's Emit has returned and the registry was not written since the
\* Emit began
QuietReturn(t) == pub[t].active /\ pub[t].returned /\ quiet[t]

\* C1 (SpecConcurrent): no lost update on registration.  Once every Register
\* call has returned (and no Unregister was ever called), the slice under
\* each event type holds every listener exactly as many times as Register
\* was called with it, however the calls and the Emits interleaved.
C1_NoLostRegistration ==
  (Tracking(regs) /\ \A t \in Threads : ~InRegister(t))
    => \A p \in Patterns, l \in Listeners :
          Count(MapGet(listeners, p), l) = RegCount(regs, p, l)

\* Two Register calls for one event type overlapped, an Emit is still
\* running, and both Register calls have returned.
C1_Witness ==
  /\ overlap /\ Tracking(regs)
  /\ \A t \in Threads : ~InRegister(t)
  /\ \E t \in Threads : pc[t] \in { "range", "deliver" }
  /\ \E p \in Patterns : Len(MapGet(listeners, p)) = 2

\* C2 (Spec): with N synchronous listeners under the one pattern that
\* matches the event's name, a synchronous Emit has, when it returns, called
\* the Handle of each of the N entries exactly once.
C2_EachHandlerOnce ==
  \A t \in Threads :
    (QuietReturn(t) /\ ~pub[t].ev.async) =>
      /\ \A i \in 1 .. Len(pub[t].acc) :
            ~pub[t].acc[i].async => pub[t].dl[i].calls = 1
      /\ \A p \in DOMAIN listeners :
            ( /\ Matches(p, pub[t].ev.name)
              /\ \A q \in (DOMAIN listeners) \ {p} : ~Matches(q, pub[t].ev.name) )
            => \A l \in Listeners :
                  ~l.async => Invocations(t, l) = Count(listeners[p], l)

\* An Emit returned with two synchronous listeners under its one matching
\* pattern.
C2_Witness ==
  \E t \in Threads, p \in DOMAIN listeners :
    /\ QuietReturn(t) /\ ~pub[t].ev.async
    /\ Matches(p, pub[t].ev.name)
    /\ \A q \in (DOMAIN listeners) \ {p} : ~Matches(q, pub[t].ev.name)
    /\ Len(listeners[p]) = 2
    /\ \A l \in Elems(listeners[p]) : ~l.async

\* C3 (Spec): routing by pattern.  With the registry quiescent, a returned
\* Emit has delivered (called inline, or launched) to a listener if and only
\* if the listener is registered under a pattern that matches the event's
\* name; and at no moment has it called a listener registered only under
\* patterns that do not match.
Delivered(t, l) ==
  \E i \in 1 .. Len(pub[t].dl) : pub[t].acc[i] = l /\ pub[t].dl[i].out # "none"

UnderMatching(l, name) ==
  \E p \in DOMAIN listeners : Matches(p, name) /\ l \in Elems(listeners[p])

C3_RoutingByPattern ==
  \A t \in Threads, l \in Listeners :
    /\ QuietReturn(t) => (Delivered(t, l) <=> UnderMatching(l, pub[t].ev.name))
    /\ (pub[t].active /\ quiet[t] /\ Delivered(t, l))
          => UnderMatching(l, pub[t].ev.name)

\* "user.*" holds one listener and "*.paid" another; an Emit of "user.x"
\* returned having delivered to the first and not to the second.
C3_Witness ==
  \E t \in Threads, a, b \in Listeners :
    /\ a # b
    /\ QuietReturn(t) /\ pub[t].ev.name = <<"u", "x">>
    /\ MapGet(listeners, <<"u", Star>>) = <<a>>
    /\ MapGet(listeners, <<Star, "p">>) = <<b>>
    /\ Delivered(t, a) /\ ~Delivered(t, b)

\* The listeners handed to the latest Unregister call that carry a name
GivenNames == { g.name : g \in { x \in Elems(last.given) : IsNamable(x) } }

ByIdentity == last.op = "Unregister" /\ Len(last.given) >= 1

\* C4 (SpecRegistry): after Unregister(pattern, s1..sk), k >= 1, no listener
\* whose name is the name of one of s1..sk is left in the pattern's slice.
C4_RemovesNamed ==
  ByIdentity =>
    \A l \in Elems(MapGet(listeners, last.eventType)) :
       ~(IsNamable(l) /\ l.name \in GivenNames)

\* C5 (SpecRegistry): Unregister(pattern, s1..sk), k >= 1, leaves every
\* listener of the pattern that has no name, or a name none of s1..sk has,
\* in the slice as many times as before.
C5_KeepsOthers ==
  ByIdentity =>
    \A l \in Elems(MapGet(last.before, last.eventType)) :
       (~IsNamable(l) \/ l.name \notin GivenNames)
         => Count(MapGet(listeners, last.eventType), l)
              = Count(MapGet(last.before, last.eventType), l)

\* C6 (SpecRegistry): when Unregister(pattern, s1..sk), k >= 1, leaves no
\* listener under a pattern that had some, the pattern is no key of the
\* registry any more.
C6_EmptyEntryCleared ==
  ( /\ ByIdentity
    /\ MapGet(last.before, last.eventType) # <<>>
    /\ MapGet(listeners, last.eventType) = <<>> )
    => ~MapHas(listeners, last.eventType)

\* C7 (SpecRegistry): Unregister(pattern) with no listeners removes the
\* pattern's entry, whatever it holds, and nothing else; when the pattern
\* was absent the registry is as before.
C7_UnregisterAll ==
  (last.op = "Unregister" /\ Len(last.given) = 0) =>
    /\ ~MapHas(listeners, last.eventType)
    /\ DOMAIN listeners = (DOMAIN last.before) \ { last.eventType }
    /\ \A q \in DOMAIN listeners : listeners[q] = last.before[q]
    /\ ~MapHas(last.before, last.eventType) => listeners = last.before

\* Unregister(pattern) ran on an entry holding a named and an un-named
\* listener.
C7_Witness ==
  /\ last.op = "Unregister" /\ Len(last.given) = 0
  /\ \E a, b \in Elems(MapGet(last.before, last.eventType)) :
        IsNamable(a) /\ ~IsNamable(b)
  /\ ~MapHas(listeners, last.eventType)

\* The delivery i of the caller's Emit has run to its end: inline, the loop
\* has moved past it; on goroutines, Handle has returned and no ErrorHandler
\* goroutine is outstanding.
Settled(t, i) ==
  IF IsAsyncDelivery(pub[t].ev, pub[t].acc[i])
    THEN pub[t].dl[i].out \in ({ "ok" } \cup Errors) /\ pub[t].dl[i].cb # "launched"
    ELSE pub[t].idx > i

Failed(t, i) == pub[t].dl[i].out \in Errors /\ pub[t].ev.eh

\* C8 (Spec): the event's ErrorHandler is called once, with the emitted
\* event and the error Handle returned, for every delivery whose Handle
\* returned an error, and not at all for a delivery whose Handle did not
\* (or when the event has no ErrorHandler); the other listeners of the same
\* Emit are called all the same.
C8_ErrorHandlerOnce ==
  \A t \in Threads : \A i \in 1 .. Len(pub[t].dl) :
    /\ pub[t].dl[i].cbCalls <= 1
    /\ (pub[t].dl[i].cbCalls = 1 \/ pub[t].dl[i].cb # "none") =>
          /\ Failed(t, i)
          /\ pub[t].dl[i].cbArgs = [event |-> pub[t].ev, err |-> pub[t].dl[i].out]
    /\ Settled(t, i) => pub[t].dl[i].cbCalls = (IF Failed(t, i) THEN 1 ELSE 0)
    /\ (pub[t].returned /\ ~IsAsyncDelivery(pub[t].ev, pub[t].acc[i]))
          => pub[t].dl[i].calls = 1

\* An Emit returned in which one Handle returned an error, the ErrorHandler
\* was called for it, and a sibling's Handle returned nil.
C8_Witness ==
  \E t \in Threads : \E i, j \in 1 .. Len(pub[t].dl) :
    /\ pub[t].returned
    /\ Failed(t, i) /\ Settled(t, i) /\ pub[t].dl[i].cbCalls = 1
    /\ pub[t].dl[j].out = "ok" /\ pub[t].dl[j].calls = 1

\* C9 (Spec): an error returned by Handle does not end the Emit.  An Emit
\* ends without returning only through a panic; when it returns, every
\* collected listener, those after a failing one included, was delivered the
\* event; and for an event without ErrorHandler the error has no effect.
Running(t) == pc[t] \in { "range", "deliver", "errhandler" }

C9_ErrorDoesNotAbort ==
  \A t \in Threads :
    pub[t].active =>
      /\ (~Running(t) /\ ~pub[t].returned) =>
            \/ pub[t].fault = "matcher"
            \/ pub[t].fault = "handler" /\ pub[t].dl[pub[t].idx].out = "panic"
      /\ pub[t].returned =>
            \A i \in 1 .. Len(pub[t].dl) : pub[t].dl[i].out # "none"
      /\ ~pub[t].ev.eh =>
            \A i \in 1 .. Len(pub[t].dl) :
               pub[t].dl[i].cbCalls = 0 /\ pub[t].dl[i].cb = "none"

\* An Emit of an event without ErrorHandler returned after a Handle
\* returned an error and a later listener was called.
C9_Witness ==
  \E t \in Threads : \E i, j \in 1 .. Len(pub[t].dl) :
    /\ pub[t].returned /\ ~pub[t].ev.eh
    /\ i < j
    /\ pub[t].dl[i].out \in Errors
    /\ pub[t].dl[j].calls = 1

\* C10 (Spec): whatever a listener's Handle does, panicking included, the
\* Emit does not panic and the process goes on delivering.
C10_PanicIsolated ==
  /\ ~crashed
  /\ \A t \in Threads : pub[t].fault # "handler"

\* C11 (Spec): delivery mode.  A collected listener's Handle is handed to a
\* goroutine exactly when the event or this listener implements IsAsync, and
\* is otherwise called on the caller's own task, inside the Emit; the mode of
\* one delivery does not depend on the listeners beside it.
TaggedAsync(t, i) == pub[t].ev.async \/ pub[t].acc[i].async

C11_DeliveryMode ==
  \A t \in Threads : \A i \in 1 .. Len(pub[t].dl) :
    LET d == pub[t].dl[i] IN
    /\ (d.out = "launched" \/ d.task = "goroutine")
          <=> (TaggedAsync(t, i) /\ pub[t].idx > i)
    /\ d.task = "caller" <=> (~TaggedAsync(t, i) /\ d.out # "none")
    /\ d.task = "caller" =>
          \E n \in 1 .. Len(pub[t].log) : pub[t].log[n] = [op |-> "Handle", i |-> i]
    /\ pub[t].returned => d.out # "none"

\* An Emit of a synchronous event returned with an IsAsync listener whose
\* Handle ran on a goroutine and, beside it, a listener whose Handle ran on
\* the caller's task.
C11_Witness ==
  \E t \in Threads : \E i, j \in 1 .. Len(pub[t].dl) :
    /\ pub[t].returned /\ ~pub[t].ev.async
    /\ pub[t].acc[i].async /\ pub[t].dl[i].task = "goroutine"
    /\ ~pub[t].acc[j].async /\ pub[t].dl[j].task = "caller"

\* C12 (SpecChurn): synchronous delivery order.  Within one Emit the calls
\* made on the caller's task follow the collected slice, one delivery after
\* the other; the ErrorHandler of a failed Handle is called on the caller's
\* task right after that Handle, before the next listener's Handle; and two
\* listeners of one pattern are called in the order in which they were
\* registered under it.
InOrder(s, a, b) ==
  \E x, y \in 1 .. Len(s) : x < y /\ s[x] = a /\ s[y] = b

\* the listener was registered under p and under no other pattern that
\* matches the name
OnlyUnder(l, p, name) ==
  /\ l \in Elems(MapGet(registered, p))
  /\ \A q \in (DOMAIN registered) \ {p} :
        Matches(q, name) => l \notin Elems(registered[q])

C12_SyncOrder ==
  \A t \in Threads :
    LET log == pub[t].log IN
    \A n \in 1 .. Len(log) :
      LET i == log[n].i IN
      /\ ~IsAsyncDelivery(pub[t].ev, pub[t].acc[i])
      /\ \A m \in 1 .. (n - 1) :
            /\ log[m].i <= i
            /\ log[m].i = i => (log[m].op = "Handle" /\ log[n].op = "ErrorHandler")
            /\ (log[m].op = "Handle" /\ log[n].op = "Handle") =>
                 \A p \in DOMAIN registered :
                    ( /\ pub[t].acc[log[m].i] # pub[t].acc[i]
                      /\ OnlyUnder(pub[t].acc[log[m].i], p, pub[t].ev.name)
                      /\ OnlyUnder(pub[t].acc[i], p, pub[t].ev.name) )
                    => InOrder(registered[p], pub[t].acc[log[m].i], pub[t].acc[i])
      /\ log[n].op = "ErrorHandler" =>
            /\ n > 1 /\ log[n - 1] = [op |-> "Handle", i |-> i]
            /\ Failed(t, i) /\ pub[t].dl[i].cbTask = "caller"
      /\ (log[n].op = "Handle" /\ Failed(t, i) /\ n < Len(log)) =>
            log[n + 1] = [op |-> "ErrorHandler", i |-> i]

\* C13 (SpecFair): Emit does not wait for goroutines.  When an Emit returns,
\* every synchronous delivery has run to its end (Handle returned and, after
\* an error, the inline ErrorHandler too) and every asynchronous delivery
\* has been launched; and an Emit whose caller keeps running ends (it
\* returns, or a panic ends it or the process) whether or not the handlers
\* it launched on goroutines ever return.
SyncFinished(t, i) ==
  /\ pub[t].dl[i].calls = 1
  /\ pub[t].dl[i].out \in ({ "ok" } \cup Errors)
  /\ pub[t].dl[i].task = "caller"
  /\ Failed(t, i) => (pub[t].dl[i].cb = "done" /\ pub[t].dl[i].cbTask = "caller")

AtReturn(t) ==
  pub[t].returned =>
    \A i \in 1 .. Len(pub[t].dl) :
      IF pub[t].ev.async \/ pub[t].acc[i].async
        THEN pub[t].dl[i].out # "none"
        ELSE SyncFinished(t, i)

C13_ReturnsWithoutWaiting ==
  /\ [](\A t \in Threads : AtReturn(t))
  /\ \A t \in Caller :
       InEmit(t) ~> (pub[t].returned \/ pub[t].fault # "none" \/ crashed)

\* An Emit has returned with a synchronous delivery finished while the
\* handler it launched on a goroutine has not returned.
C13_Witness ==
  \E t \in Threads : \E i, j \in 1 .. Len(pub[t].dl) :
    /\ pub[t].returned /\ pc[t] = "idle"
    /\ pub[t].dl[i].out = "launched"
    /\ SyncFinished(t, j)

\* C14 (SpecFair): in an asynchronous delivery the ErrorHandler runs on a
\* goroutine of its own, launched by the delivery's goroutine after Handle
\* returned an error, and at most once per delivery.  While it has not
\* returned, nothing waits for it: the Emit can take its next step, and every
\* other launched handler and ErrorHandler can run.
C14_CallbackOwnTask ==
  \A t \in Threads : \A i \in 1 .. Len(pub[t].dl) :
    LET d == pub[t].dl[i] IN
    TaggedAsync(t, i) =>
      /\ d.cbCalls <= 1
      /\ d.cbTask \in { "none", "own" }
      /\ d.cb # "none" => (Failed(t, i) /\ d.task = "goroutine")
      /\ d.cb = "done" => (d.cbTask = "own" /\ d.cbCalls = 1)
      /\ (d.cb = "launched" /\ ~crashed) =>
            /\ d.cbCalls = 0
            /\ pc[t] = "deliver" =>
                  ENABLED (EmitReturn(t) \/ \E o \in Outcomes : Trigger(t, o))
            /\ pc[t] = "errhandler" => ENABLED ErrorHandlerInline(t)
            /\ \A j \in 1 .. Len(pub[t].dl) :
                  /\ pub[t].dl[j].out = "launched" => ENABLED GoHandle(t, j, "ok")
                  /\ (j # i /\ pub[t].dl[j].cb = "launched")
                        => ENABLED GoErrorHandler(t, j)

\* An Emit has returned and a sibling's goroutine handler has run while the
\* ErrorHandler launched for a failed asynchronous delivery has not returned.
C14_Witness ==
  \E t \in Threads : \E i, j \in 1 .. Len(pub[t].dl) :
    /\ i # j
    /\ pub[t].returned
    /\ TaggedAsync(t, i) /\ pub[t].dl[i].cb = "launched"
    /\ pub[t].dl[j].task = "goroutine" /\ pub[t].dl[j].out = "ok"

\* C15 (SpecReentrant): no Handle and no ErrorHandler is called by a task
\* that holds the mutex, and the mutex is held only by a caller inside the
\* locked section of Register, which waits for nothing; so a handler running
\* inline that calls Register, Unregister or Emit never waits for a lock its
\* own task holds, and every such call can take its next step.
Frames(t) == { pub[t] } \cup { stack[t][n].pub : n \in 1 .. Len(stack[t]) }

C15_NoHandlerUnderLock ==
  /\ \A t \in Threads : \A f \in Frames(t) : \A i \in 1 .. Len(f.dl) :
        ~f.dl[i].locked
  /\ \A t \in Threads : pc[t] \in { "handling", "errhandler" } => mutex # t
  /\ mutex # Free => pc[mutex] \in { "RegLoadOrStore", "RegStore" }
  /\ ~crashed =>
       \A t \in Threads :
         /\ pc[t] = "RegLock" =>
               \/ ENABLED RegisterLock(t)
               \/ ENABLED (RegisterLoadOrStore(mutex) \/ RegisterStore(mutex))
         /\ pc[t] = "RegLoadOrStore" => ENABLED RegisterLoadOrStore(t)
         /\ pc[t] = "RegStore" => ENABLED RegisterStore(t)
         /\ pc[t] = "handling" =>
               /\ ENABLED HandleReturn(t, "ok")
               /\ (mutex = Free) =>
                     \A p \in RePatterns, g \in ReGiven : ENABLED Unregister(t, p, g)

\* An Emit has returned after one of its handlers, running inline, called
\* Register, Unregister and Emit and then returned nil.
C15_Witness ==
  \E t \in Threads : \E i \in 1 .. Len(pub[t].dl) :
    /\ pub[t].returned /\ stack[t] = <<>>
    /\ pub[t].dl[i].made = { "Register", "Unregister", "Emit" }
    /\ pub[t].dl[i].out = "ok" /\ pub[t].dl[i].calls = 1

\* C16 (SpecChurn): every Emit works on one snapshot of the registry.  The
\* listeners a returned Emit has delivered to are, with their multiplicities,
\* the listeners under the matching patterns of one value that the whole
\* sync.Map held at some moment between the call of the Emit and its return.
Entries(m) == UNION { { <<p, i>> : i \in 1 .. Len(m[p]) } : p \in DOMAIN m }

MatchingCount(m, name, l) ==
  Cardinality({ x \in Entries(m) : Matches(x[1], name) /\ m[x[1]][x[2]] = l })

C16_OneSnapshot ==
  \A t \in Threads :
    pub[t].returned =>
      \E m \in pub[t].snaps :
        \A l \in Listeners :
          Count(pub[t].acc, l) = MatchingCount(m, pub[t].ev.name, l)

\* the matcher under test has returned from NewMatcher / from Match
Compiled == mt.pc \in { "compiled", "matched" }
Matched  == mt.pc = "matched"

\* C17 (SpecMatcher): the exact rule.  For a non-empty pattern that neither
\* begins nor ends with "*" (a "*" inside it changes nothing), NewMatcher and
\* Match do not panic and Match is true exactly when the name is the
\* pattern, character by character: a blank or a letter of the other case
\* makes the name another name.
ExactPattern(p) == p # <<>> /\ p[1] # Star /\ p[Len(p)] # Star

C17_ExactRule ==
  ExactPattern(mt.pattern) =>
    /\ mt.pc # "panicked"
    /\ Matched => (mt.res <=> mt.name = mt.pattern)

\* Match has accepted a name equal to a pattern with "*" in its middle.
C17_Witness ==
  /\ Matched /\ mt.res
  /\ mt.pattern = << "a", Star, "A" >>
  /\ mt.name = mt.pattern

\* C18 (SpecMatcher): the prefix rule.  For a pattern prefix+"*" whose prefix
\* is not empty and does not begin with "*", Match is true exactly when the
\* name starts with the prefix; for a name shorter than the prefix it is
\* false, and no slice is taken out of range.
PrefixOf(p) == SubSeq(p, 1, Len(p) - 1)
PrefixPattern(p) == Len(p) >= 2 /\ p[Len(p)] = Star /\ p[1] # Star

C18_PrefixRule ==
  PrefixPattern(mt.pattern) =>
    /\ mt.pc # "panicked"
    /\ Matched =>
         /\ mt.res <=> StartsWith(mt.name, PrefixOf(mt.pattern))
         /\ Len(mt.name) < Len(PrefixOf(mt.pattern)) => ~mt.res

\* Match has rejected, without a panic, a name that is shorter than the
\* prefix and is its beginning.
C18_Witness ==
  /\ Matched /\ ~mt.res
  /\ mt.pattern = << "a", "A", Star >>
  /\ mt.name = << "a" >>

\* C19 (SpecMatcher): the suffix rule.  For a pattern "*"+suffix whose suffix
\* is not empty and does not end with "*", Match is true exactly when the
\* name ends with the suffix, and false (without a panic) for a name shorter
\* than the suffix.
SuffixOf(p) == SubSeq(p, 2, Len(p))
SuffixPattern(p) == Len(p) >= 2 /\ p[1] = Star /\ p[Len(p)] # Star

C19_SuffixRule ==
  SuffixPattern(mt.pattern) =>
    /\ mt.pc # "panicked"
    /\ Matched =>
         /\ mt.res <=> EndsWith(mt.name, SuffixOf(mt.pattern))
         /\ Len(mt.name) < Len(SuffixOf(mt.pattern)) => ~mt.res

\* Match has accepted a name that is longer than the suffix and ends with it.
C19_Witness ==
  /\ Matched /\ mt.res
  /\ mt.pattern = << Star, "a", "A" >>
  /\ mt.name = << " ", "a", "A" >>

\* C20 (SpecMatcher): the universal rule.  The pattern "*" matches every
\* name, the empty name and the name "*" among them.
C20_UniversalRule ==
  mt.pattern = << Star >> =>
    /\ mt.pc # "panicked"
    /\ Matched => mt.res

\* Match has accepted the empty name for the pattern "*".
C20_Witness ==
  /\ Matched /\ mt.res
  /\ mt.pattern = << Star >>
  /\ mt.name = << >>

\* C21 (SpecMatcher): the contains rule.  A pattern of more than one
\* character whose first and last characters are both "*" compiles, without
\* a panic, to a contains matcher (not to a prefix or a suffix matcher), and
\* Match is true exactly when the name holds the pattern stripped of both
\* markers as a run of consecutive characters, at the start, at the end, in
\* the middle or as the whole name; "**" strips to the empty text, which
\* every name holds.
ContainsPattern(p) == Len(p) > 1 /\ p[1] = Star /\ p[Len(p)] = Star

ContainsOf(p) == SubSeq(p, 2, Len(p) - 1)

C22_EmptyPattern ==
  /\ mt.pattern = << >> =>
       /\ mt.pc # "panicked"
       /\ Compiled => mt.m.matchType = matchExact
       /\ Matched => (mt.res <=> mt.name = << >>)
  /\ \A t \in Threads :
       << >> \in pub[t].visited => pub[t].fault # "matcher"

\* the caller's latest publish came from EmitBy, with an Event (or with
\* another value) as the payload
ByEventPayload(t) == pub[t].via.how = "EmitBy" /\ IsEvent(pub[t].via.payload)
ByValuePayload(t) == pub[t].via.how = "EmitBy" /\ ~IsEvent(pub[t].via.payload)

\* every Handle called so far in the caller's publish was given event e
HandlersGot(t, e) ==
  \A i \in 1 .. Len(pub[t].dl) : pub[t].dl[i].calls > 0 => pub[t].dl[i].arg = e

\* C23 (SpecEmitBy): EmitBy(type, payload) with an Event as the payload
\* publishes that event as it is.  The event published, and handed to every
\* Handle, is the payload with its own name, payload bytes and ErrorHandler;
\* the listeners delivered to are those registered under the patterns that
\* match the payload event's own name, whatever the type argument is.
C23_EventPayloadAsIs ==
  \A t \in Threads :
    ByEventPayload(t) =>
      LET e == pub[t].via.payload.val IN
      /\ pub[t].active /\ pub[t].ev = e
      /\ HandlersGot(t, e)
      /\ \A l \in Listeners :
           /\ QuietReturn(t) => (Delivered(t, l) <=> UnderMatching(l, e.name))
           /\ (quiet[t] /\ Delivered(t, l)) => UnderMatching(l, e.name)

\* EmitBy("ux", e) with an event e named "up" that carries a payload returned
\* having called the listener under "*p" with e, and not the one under "ux".
C23_Witness ==
  \E t \in Threads, a, b \in Listeners :
    /\ a # b
    /\ ByEventPayload(t) /\ QuietReturn(t)
    /\ pub[t].via.eventType = <<"u", "x">>
    /\ pub[t].via.payload.val.name = <<"u", "p">>
    /\ ~pub[t].via.payload.val.payload.isNil
    /\ MapGet(listeners, <<"u", "x">>) = << a >>
    /\ MapGet(listeners, <<Star, "p">>) = << b >>
    /\ Delivered(t, b) /\ ~Delivered(t, a)
    /\ pub[t].dl[1].calls = 1 /\ pub[t].dl[1].arg = pub[t].via.payload.val

\* C24 (SpecEmitBy): EmitBy(type, payload) with a payload that is no Event
\* publishes one plain event named type, and its payload is: for a string
\* its bytes (a non-nil slice), for a []byte that very slice (nil stays
\* nil), for nil the nil slice, and for a value that json.Marshal rejects
\* the nil slice; a value that json.Marshal accepts arrives as non-nil
\* bytes.  The publish takes place in every case and every Handle called
\* gets that event.
C24_ValuePayload ==
  \A t \in Threads :
    ByValuePayload(t) =>
      LET y == pub[t].via.payload
          e == pub[t].ev
      IN /\ pub[t].active
         /\ e.name = pub[t].via.eventType /\ ~e.async /\ ~e.eh
         /\ y.kind = "string" =>
              /\ ~e.payload.isNil
              /\ Len(e.payload.bytes) = Len(y.val)
              /\ \A i \in 1 .. Len(y.val) : e.payload.bytes[i] = Code(y.val[i])
         /\ y.kind = "bytes" => e.payload = y.val
         /\ y.kind = "nil" => e.payload = NilBytes
         /\ y.kind = "chan" => e.payload = NilBytes
         /\ y.kind = "int" => (~e.payload.isNil /\ e.payload.bytes # << >>)
         /\ HandlersGot(t, e)
         /\ QuietReturn(t) =>
              \A l \in Listeners : Delivered(t, l) <=> UnderMatching(l, e.name)

\* EmitBy("up", "up") returned having handed the bytes 117, 112 to a listener.
C24_Witness ==
  \E t \in Threads :
    /\ ByValuePayload(t) /\ QuietReturn(t)
    /\ pub[t].via.payload = StringValue(<<"u", "p">>)
    /\ pub[t].ev.payload = Bytes(<< 117, 112 >>)
    /\ Len(pub[t].dl) > 0
    /\ pub[t].dl[1].calls = 1 /\ pub[t].dl[1].arg = pub[t].ev

\* C25 (SpecNil): a listener built with a nil handle, by NewListener or by
\* NewNamedListener, is a no-op that succeeds.  When a synchronous delivery
\* reaches it, its Handle can return nil and can do nothing else; once
\* called it has returned nil, the event's ErrorHandler was not called for
\* it, and the loop stands at the next listener, ready to call it.
C25_NilHandleIsNoOp ==
  \A t \in Threads : \A i \in 1 .. Len(pub[t].dl) :
    pub[t].acc[i] \in NilHandled =>
      /\ (~crashed /\ pc[t] = "deliver" /\ pub[t].idx = i) =>
            /\ ENABLED Trigger(t, "ok")
            /\ \A o \in Outcomes \ { "ok" } : ~ENABLED Trigger(t, o)
      /\ pub[t].dl[i].out \in { "none", "ok" }
      /\ pub[t].dl[i].cb = "none" /\ pub[t].dl[i].cbCalls = 0
      /\ pub[t].dl[i].calls > 0 =>
            /\ pub[t].dl[i].calls = 1 /\ pub[t].idx > i
            /\ (i < Len(pub[t].dl) /\ pub[t].dl[i + 1].out = "none") =>
                  /\ pc[t] = "deliver" /\ pub[t].idx = i + 1
                  /\ \E o \in Outcomes : ENABLED Trigger(t, o)

\* An Emit of an event with an ErrorHandler returned: the first listener,
\* built with a nil handle, returned nil; the second was called after it,
\* failed, and the ErrorHandler was called for the second only.
C25_Witness ==
  \E t \in Threads :
    /\ pub[t].returned /\ pub[t].ev.eh /\ Len(pub[t].dl) = 2
    /\ pub[t].acc[1] \in NilHandled /\ pub[t].acc[2] \notin NilHandled
    /\ pub[t].dl[1].out = "ok" /\ pub[t].dl[1].cb = "none"
    /\ pub[t].dl[2].out \in Errors /\ pub[t].dl[2].cb = "done"

\* The same with the named listener built by NewNamedListener(name, nil).
C25_NamedWitness ==
  \E t \in Threads :
    /\ pub[t].returned /\ Len(pub[t].dl) = 2
    /\ pub[t].acc[1] \in NilHandled /\ IsNamable(pub[t].acc[1])
    /\ pub[t].dl[1].out = "ok" /\ pub[t].dl[2].calls = 1

\* C26 (SpecRegistry): insertion order.  Register(pattern, s) leaves under
\* the pattern the slice it found with s added at its end (the one-element
\* slice when the pattern was absent), and at every moment two different
\* listeners that stand under a pattern stand there in an order in which
\* they were registered under it, named and un-named listeners alike,
\* whatever Unregister calls came in between.
C26_InsertionOrder ==
  /\ last.op = "Register" =>
       listeners[last.eventType]
         = Append(MapGet(last.before, last.eventType), last.listener)
  /\ \A p \in DOMAIN listeners :
       \A a, b \in Elems(listeners[p]) :
          (a # b /\ InOrder(listeners[p], a, b))
             => InOrder(MapGet(registered, p), a, b)

\* C27 (SpecChurn): fan-out is not deduplicated.  With the registry quiescent, a
\* returned Emit has made for every listener as many deliveries as the
\* listener has entries under the patterns that match the event's name,
\* counting an entry under each of several matching patterns and each of
\* several entries under one pattern; a synchronous delivery being one call
\* of Handle, a synchronous listener with k such entries was called k times.
C27_NoDeduplication ==
  \A t \in Threads :
    QuietReturn(t) =>
      \A l \in Listeners :
        /\ Count(pub[t].acc, l) = MatchingCount(listeners, pub[t].ev.name, l)
        /\ ~IsAsyncDelivery(pub[t].ev, l) =>
              Invocations(t, l) = MatchingCount(listeners, pub[t].ev.name, l)

\* One listener stands under "u*" and under "*p"; a synchronous Emit of "up"
\* returned having called it twice.
C27_Witness ==
  \E t \in Threads, l \in Listeners :
    /\ QuietReturn(t) /\ pub[t].ev.name = <<"u", "p">>
    /\ MapGet(listeners, <<"u", Star>>) = << l >>
    /\ MapGet(listeners, <<Star, "p">>) = << l >>
    /\ ~IsAsyncDelivery(pub[t].ev, l)
    /\ Invocations(t, l) = 2

\* The same listener stands twice under "u*": called twice as well.
C27_SamePatternWitness ==
  \E t \in Threads, l \in Listeners :
    /\ QuietReturn(t) /\ pub[t].ev.name = <<"u", "p">>
    /\ listeners = MapStore(EmptyMap, <<"u", Star>>, << l, l >>)
    /\ ~IsAsyncDelivery(pub[t].ev, l)
    /\ Invocations(t, l) = 2

\* C28 (SpecRegistry): Unregister(pattern, s1..sk), k >= 1, changes nothing
\* in the registry when the pattern is no key of it (the key is not
\* created) or when none of s1..sk has a name: the registry after the call
\* has the keys it had, each with the slice it had.
C28_NothingToRemove ==
  ( /\ ByIdentity
    /\ ~MapHas(last.before, last.eventType) \/ GivenNames = {} )
    => /\ DOMAIN listeners = DOMAIN last.before
       /\ \A p \in DOMAIN listeners : listeners[p] = last.before[p]

\* Unregister was called with a named listener for a pattern that is no key,
\* while another pattern holds a listener of that name.
C28_Witness ==
  /\ ByIdentity /\ GivenNames # {}
  /\ ~MapHas(last.before, last.eventType)
  /\ \E p \in DOMAIN last.before : \E l \in Elems(last.before[p]) :
        IsNamable(l) /\ l.name \in GivenNames
  /\ listeners = last.before

\* Unregister was called with un-named listeners only, for a pattern that
\* holds a named listener before an un-named one.
C28_UnnamedWitness ==
  /\ ByIdentity /\ GivenNames = {}
  /\ MapHas(last.before, last.eventType)
  /\ \E a, b \in Elems(last.before[last.eventType]) :
        /\ IsNamable(a) /\ ~IsNamable(b) /\ b \in Elems(last.given)
        /\ InOrder(last.before[last.eventType], a, b)
  /\ listeners = last.before

\* C29 (SpecChurn): no torn entry.  Whatever an Emit takes from a pattern's
\* entry while Register and Unregister calls run beside it is the pattern's
\* complete slice as it stood when one of those calls began or ended (or
\* when the Emit began, no call being in progress): never a slice that only
\* existed in the middle of a call.  The entry that Register creates empty
\* before it stores its slice holds no listener, as the absent entry before
\* the call.
C29_NoTornEntry ==
  \A t \in Threads :
    /\ pub[t].active => pub[t].whole # {}
    /\ \A k \in DOMAIN pub[t].took :
          \E m \in pub[t].whole : pub[t].took[k] = MapGet(m, k)
    /\ last.op = "LoadOrStore" =>
          /\ ~MapHas(last.before, last.eventType)
          /\ listeners[last.eventType] = << >>

\* The Emit has visited a pattern's entry between the two writes of a
\* Register call that is creating it, and an entry that held a listener.
C29_Witness ==
  \E k \in DOMAIN pub[Publisher].took :
    /\ last.op = "LoadOrStore" /\ last.eventType = k
    /\ pc[Writer] = "RegStore"
    /\ pub[Publisher].took[k] = << >>
    /\ \E q \in DOMAIN pub[Publisher].took : pub[Publisher].took[q] # << >>

\* The Emit took one listener from an entry that holds two by now.
C29_GrownWitness ==
  \E k \in DOMAIN pub[Publisher].took :
    /\ InEmit(Publisher)
    /\ Len(pub[Publisher].took[k]) = 1 /\ Len(MapGet(listeners, k)) = 2

\* C30 (SpecNil): the registry operations are total on a nil Listener.
\* Register(pattern, nil) stores the nil value at the end of the slice and
\* returns, Unregister(pattern, nil) returns leaving the registry as it was,
\* and an Emit that has collected the nil Listener does not fail: the nil
\* entry is skipped or its delivery ends as a successful call.
C30_TotalOnNil ==
  /\ (last.op = "Register" /\ last.listener = NilListener) =>
        listeners[last.eventType]
          = Append(MapGet(last.before, last.eventType), NilListener)
  /\ (last.op = "Unregister" /\ last.given = << NilListener >>) =>
        listeners = last.before
  /\ \A t \in Threads :
       /\ pub[t].active =>
            (pub[t].fault = "none" \/ NilListener \notin Elems(pub[t].acc))
       /\ \A i \in 1 .. Len(pub[t].dl) :
            pub[t].acc[i] = NilListener => pub[t].dl[i].out \in { "none", "ok" }

\* Register and Unregister have both run with the nil Listener.
C30_RegistryWitness ==
  /\ last.op = "Unregister" /\ last.given = << NilListener >>
  /\ NilListener \in Elems(MapGet(listeners, last.eventType))

\* C31 (SpecFair): the ErrorHandler always runs asynchronously.  For every
\* delivery of an Emit, inline or on a goroutine, the event's ErrorHandler is
\* not called on the publisher's task: it runs on a goroutine of its own,
\* and the publisher is at no moment inside an ErrorHandler call whose
\* return its Emit has to wait for.
C31_ErrorHandlerOffTask ==
  \A t \in Threads :
    /\ pc[t] # "errhandler"
    /\ \A i \in 1 .. Len(pub[t].dl) :
          /\ pub[t].dl[i].cbTask \in { "none", "own" }
          /\ pub[t].dl[i].cb = "done" => pub[t].dl[i].cbTask = "own"

\* C32 (SpecConstruct): NewEventify(nil) gives a usable engine.  The
\* construction with the one argument nil does not panic; the engine built
\* has the no-op logger; and no Register, Unregister or Emit call on it ends
\* in a panic.
C32_NilOptionUsable ==
  eng.opts = << NilOption >> =>
    /\ eng.pc # "panicked"
    /\ eng.pc = "built" =>
         /\ eng.log = NoLog
         /\ \A t \in Threads : pc[t] # "panicked" /\ pub[t].fault = "none"

\* An engine built with no option, or with WithLogger(&NoLog{}), has the
\* no-op logger and has served a Register, an Unregister and an Emit.
C32_DefaultWitness ==
  /\ eng.pc = "built" /\ eng.log = NoLog
  /\ Len(eng.opts) <= 1
  /\ nRegs > 0 /\ nUnregs > 0
  /\ \E t \in Threads : pub[t].returned

\* C33 (SpecRegistry): keys are literal pattern strings.  Every write of
\* Register, of Unregister(p) and of Unregister(p, s1..sk) leaves each
\* pattern other than p as it was, absent or with the very slice it held:
\* also a pattern that matches p taken as a name, and also the listeners
\* under another pattern that have the name of one of s1..sk.
C33_OtherPatternsUntouched ==
  last.op # "none" =>
    \A q \in (DOMAIN listeners \cup DOMAIN last.before) \ { last.eventType } :
      /\ MapHas(listeners, q) /\ MapHas(last.before, q)
      /\ listeners[q] = last.before[q]

\* Unregister("ux") ran while "u*", which matches "ux", held a listener.
C33_Witness ==
  /\ last.op = "Unregister" /\ last.given = << >>
  /\ last.eventType = <<"u", "x">>
  /\ MapGet(last.before, <<"u", "x">>) # << >>
  /\ MapGet(listeners, <<"u", Star>>) # << >>

\* Unregister("ux", n1) ran while "u*" held a listener named n1 as well.
C33_SameNameWitness ==
  /\ ByIdentity /\ last.eventType = <<"u", "x">>
  /\ \E a \in Elems(MapGet(last.before, <<"u", "x">>)) :
       \E b \in Elems(MapGet(listeners, <<"u", Star>>)) :
          IsNamable(a) /\ a.name \in GivenNames /\ b.name = a.name
  /\ MapGet(listeners, <<"u", "x">>) = << >>


\* ---------------------------------------------------------------------------
\* C34: once Unregister(p) without listeners has returned, an Emit that starts
\* afterwards takes from the entry of p, for every listener, at most as many
\* copies as Register has stored under p since that Unregister call: nothing
\* registered under p before the call is invoked through p again unless it was
\* registered under p again.  (Checked under SpecChurn.)

\* the listeners Register stored under p after the first n of them
RegisteredAfter(p, n) ==
  SubSeq(MapGet(registered, p), n + 1, Len(MapGet(registered, p)))

C34_UnregisteredStaysOut ==
  \A t \in Threads :
    \A p \in (DOMAIN pub[t].took) \cap (DOMAIN pub[t].cut) :
      Match(NewMatcher(p), pub[t].ev.name) =>
        \A l \in Elems(pub[t].took[p]) :
          Count(pub[t].took[p], l) <= Count(RegisteredAfter(p, pub[t].cut[p]), l)

\* an Emit that started after Unregister(p) had removed a listed entry has
\* ranged over the registry, delivered and returned without taking anything
\* from p
C34_Witness ==
  \E t \in Threads : \E p \in DOMAIN pub[t].cut :
    /\ pub[t].returned
    /\ pub[t].cut[p] > 0
    /\ RegisteredAfter(p, pub[t].cut[p]) = << >>
    /\ ~MapHas(pub[t].took, p)
    /\ Len(pub[t].dl) > 0

\* a listener registered under p again after the Unregister call is taken by
\* the later Emit, the one registered before the call is not
C34_AgainWitness ==
  \E t \in Threads : \E p \in (DOMAIN pub[t].took) \cap (DOMAIN pub[t].cut) :
    /\ pub[t].returned
    /\ pub[t].cut[p] > 0
    /\ pub[t].took[p] = RegisteredAfter(p, pub[t].cut[p])
    /\ Len(pub[t].took[p]) > 0

\* an Emit in progress when Unregister(p) ran has taken, and delivers to, what
\* was registered under p before the call
C34_InProgressWitness ==
  \E t \in Threads : \E p \in (DOMAIN pub[t].took) \cap (DOMAIN cut) :
    /\ pub[t].returned
    /\ ~MapHas(pub[t].cut, p)
    /\ cut[p] > 0
    /\ Len(pub[t].took[p]) > 0
    /\ ~MapHas(listeners, p)


\* ---------------------------------------------------------------------------
\* C35: the deliveries of an Emit are fixed when _MatchedListeners returns.
\* From then on the collected slice holds, for every listener, exactly the
\* entries the Range took from the matching keys, whatever the handlers of
\* this Emit register or unregister meanwhile; there is one delivery per
\* collected entry, Handle was called once for every entry before the one in
\* turn and never twice, and when a synchronous Emit has returned Handle was
\* called exactly once for every collected entry.  (Checked under
\* SpecReentrant, whose handlers call Register, Unregister and Emit.)

C35_FrameFixed(p) ==
  /\ \A l \in Elems(p.acc) \cup UNION { Elems(p.took[k]) : k \in DOMAIN p.took } :
        Count(p.acc, l) = MatchingCount(p.took, p.ev.name, l)
  /\ \A i \in 1 .. Len(p.dl) :
        /\ p.dl[i].calls <= 1
        /\ i < p.idx => p.dl[i].calls = 1
        /\ i > p.idx => p.dl[i].calls = 0

C35_DeliverySetFixed ==
  \A t \in Threads :
    /\ pc[t] \in { "deliver", "handling", "errhandler" } =>
          /\ Len(pub[t].dl) = Len(pub[t].acc)
          /\ C35_FrameFixed(pub[t])
    /\ \A n \in 1 .. Len(stack[t]) :
          /\ Len(stack[t][n].pub.dl) = Len(stack[t][n].pub.acc)
          /\ C35_FrameFixed(stack[t][n].pub)
    /\ (pub[t].returned /\ pub[t].fault = "none") =>
          /\ Len(pub[t].dl) = Len(pub[t].acc)
          /\ C35_FrameFixed(pub[t])
          /\ \A i \in 1 .. Len(pub[t].acc) : pub[t].dl[i].calls = 1

\* a handler of the Emit registered a listener under the matching pattern
\* "u*"; the Emit returned having called only the entry it had collected
C35_Witness ==
  \E t \in Threads :
    /\ pub[t].returned /\ stack[t] = << >>
    /\ Len(pub[t].acc) = 1
    /\ pub[t].dl[1].made = { "Register" }
    /\ pub[t].dl[1].calls = 1
    /\ Len(MapGet(listeners, <<"u", Star>>)) = 2

\* the handler of the first of two collected entries removed the pattern
\* "u*" from the registry; the second entry was called all the same
C35_UnregisteredWitness ==
  \E t \in Threads :
    /\ pub[t].returned /\ stack[t] = << >>
    /\ Len(pub[t].acc) = 2
    /\ pub[t].dl[1].made = { "Unregister" }
    /\ pub[t].dl[2].made = {}
    /\ ~MapHas(listeners, <<"u", Star>>)
    /\ pub[t].dl[2].calls = 1

====
